---------------------------- MODULE Spec2Model ----------------------------
(***************************************************************************)
(* mcp-jest: the test runner (MCPTestRunner), its use of the protocol      *)
(* client (MCPTestClient) and the result list it builds.                   *)
(*                                                                         *)
(* One run() is modelled as the chain of continuations between two         *)
(* awaited client calls: an action is everything the runner executes from  *)
(* the moment one awaited call settles to the moment it issues the next.   *)
(* The server and the transport are the environment: they choose how each  *)
(* call settles.                                                           *)
(*                                                                         *)
(* JavaScript strings are sequences of one-character strings.              *)
(***************************************************************************)
EXTENDS Integers, Sequences, FiniteSets, TLC

(***************************************************************************)
(* Bounds of the model.                                                    *)
(***************************************************************************)
\* The largest number of declared capabilities (tools + resources + prompts).
MaxDecl == 2

(***************************************************************************)
(* Names, URIs and patterns.                                               *)
(***************************************************************************)
getUser == <<"g", "e", "t", "U", "s", "e", "r">>
getWeather == <<"g", "e", "t", "W", "e", "a", "t", "h", "e", "r">>
search == <<"s", "e", "a", "r", "c", "h">>
seven == <<"7">>

docsA == <<"d", "o", "c", "s", "/", "a">>
docsB == <<"d", "o", "c", "s", "/", "b">>
cfgUri == <<"c", "f", "g">>
docsStar == <<"d", "o", "c", "s", "/", "*">>

analyze == <<"a", "n", "a", "l", "y", "z", "e">>
review == <<"r", "e", "v", "i", "e", "w">>

getStar == <<"g", "e", "t", "*">>
SEARCH == <<"S", "E", "A", "R", "C", "H">>
weather == <<"w", "e", "a", "t", "h", "e", "r">>

\* An absent (undefined) or empty pattern: both are falsy in JavaScript.
NoPattern == <<>>

ToolNames == {getUser, getWeather, search, seven}
ResourcePatterns == {docsStar, cfgUri}
PromptNames == {analyze, review}
FilterPatterns == {NoPattern, getStar, SEARCH}
SkipPatterns == {NoPattern, weather}

\* What the server advertises when a listing call succeeds.
ToolCatalogs == {<<getUser, getWeather, search>>}
ResourceCatalogs == {<<docsB, docsA>>}
PromptCatalogs == {<<analyze>>}

(***************************************************************************)
(* Sequence helpers.                                                       *)
(***************************************************************************)
Range(s) == {s[i] : i \in DOMAIN s}

RECURSIVE SelectIdx(_, _)
\* The increasing sequence of the indices in 1..n that belong to S.
SelectIdx(S, n) ==
  IF n = 0 THEN <<>>
  ELSE IF n \in S THEN Append(SelectIdx(S, n - 1), n)
  ELSE SelectIdx(S, n - 1)

\* Array.prototype.filter, by an index predicate given as a set of indices.
FilterSeq(s, S) == [k \in 1..Len(SelectIdx(S, Len(s))) |-> s[SelectIdx(S, Len(s))[k]]]

\* Array.prototype.map(x => x.name)
Names(s) == [k \in 1..Len(s) |-> s[k].name]

(***************************************************************************)
(* Pattern matching.                                                       *)
(***************************************************************************)
RECURSIVE RegexFrom(_, _, _, _)
\* Whether value[i..] matches, to its end, the regular expression that
\* matchesPattern builds from pattern[j..]: "*" became ".*", "?" became ".",
\* and a "." of the pattern is the regular expression's "any character".
RegexFrom(value, pattern, i, j) ==
  IF j > Len(pattern) THEN i > Len(value)
  ELSE IF pattern[j] = "*"
    THEN RegexFrom(value, pattern, i, j + 1)
         \/ (i <= Len(value) /\ RegexFrom(value, pattern, i + 1, j))
  ELSE /\ i <= Len(value)
       /\ (pattern[j] \in {"?", "."} \/ pattern[j] = value[i])
       /\ RegexFrom(value, pattern, i + 1, j + 1)

\* new RegExp(`^${regex}$`).test(value)
matchesPattern(value, pattern) == RegexFrom(value, pattern, 1, 1)

UpperToLower ==
  [c \in {"A", "C", "E", "H", "R", "S", "U", "W"} |->
     CASE c = "A" -> "a" [] c = "C" -> "c" [] c = "E" -> "e" [] c = "H" -> "h"
       [] c = "R" -> "r" [] c = "S" -> "s" [] c = "U" -> "u" [] c = "W" -> "w"]

\* One character, case folded.
Lower(c) == IF c \in DOMAIN UpperToLower THEN UpperToLower[c] ELSE c

RECURSIVE FilterFrom(_, _, _, _)
\* Whether some prefix of value[i..] matches pattern[j..] as a
\* case-insensitive glob: "*" any sequence, "?" any one character.
FilterFrom(value, pattern, i, j) ==
  IF j > Len(pattern) THEN TRUE
  ELSE IF pattern[j] = "*"
    THEN FilterFrom(value, pattern, i, j + 1)
         \/ (i <= Len(value) /\ FilterFrom(value, pattern, i + 1, j))
  ELSE /\ i <= Len(value)
       /\ (pattern[j] = "?" \/ Lower(pattern[j]) = Lower(value[i]))
       /\ FilterFrom(value, pattern, i + 1, j + 1)

\* matchesFilterPattern without the case folding.
matchesFilterPatternCaseSensitive(value, pattern) ==
  \E i \in 1..(Len(value) + 1) :
    \E j \in i..(Len(value) + 1) :
      RegexFrom(SubSeq(value, i, j - 1),
                [k \in DOMAIN pattern |-> IF pattern[k] = "." THEN "?" ELSE pattern[k]], 1, 1)

\* The glob may match anywhere in the name (the pattern "user" selects getUser).
matchesFilterPattern(value, pattern) ==
  \E i \in 1..(Len(value) + 1) : FilterFrom(value, pattern, i, 1)

\* shouldSkipTest with the filter deciding first: a name the filter selects runs.
shouldSkipTestFilterFirst(testName, filter, skip) ==
  IF filter # NoPattern
    THEN ~matchesFilterPattern(testName, filter)
    ELSE skip # NoPattern /\ matchesFilterPattern(testName, skip)

\* skip wins over filter; a pattern that is not set selects nothing.
shouldSkipTest(testName, filter, skip) ==
  \/ skip # NoPattern /\ matchesFilterPattern(testName, skip)
  \/ filter # NoPattern /\ ~matchesFilterPattern(testName, filter)

(***************************************************************************)
(* JavaScript own-property order: Object.keys and Object.entries list the  *)
(* integer-like keys first, in ascending numeric order, and then the other *)
(* keys in the order they were first inserted.                             *)
(***************************************************************************)
Digits == {"0", "1", "2", "3", "4", "5", "6", "7", "8", "9"}

DigitValue(c) ==
  CASE c = "0" -> 0 [] c = "1" -> 1 [] c = "2" -> 2 [] c = "3" -> 3 [] c = "4" -> 4
    [] c = "5" -> 5 [] c = "6" -> 6 [] c = "7" -> 7 [] c = "8" -> 8 [] c = "9" -> 9

\* A canonical array index: decimal digits without a leading zero.
IsArrayIndex(key) ==
  /\ Len(key) >= 1
  /\ \A i \in DOMAIN key : key[i] \in Digits
  /\ (Len(key) = 1 \/ key[1] # "0")

RECURSIVE NumValue(_)
NumValue(key) ==
  IF key = <<>> THEN 0
  ELSE 10 * NumValue(SubSeq(key, 1, Len(key) - 1)) + DigitValue(key[Len(key)])

\* The keys of the sequence `keys` without repetitions, first occurrences kept.
FirstOccurrences(keys) ==
  FilterSeq(keys, {i \in DOMAIN keys : \A h \in 1..(i - 1) : keys[h] # keys[i]})

RECURSIVE SortIndexKeys(_)
\* A set of integer-like keys, ascending by numeric value.
SortIndexKeys(S) ==
  IF S = {} THEN <<>>
  ELSE LET m == CHOOSE k \in S : \A o \in S : NumValue(k) <= NumValue(o)
       IN <<m>> \o SortIndexKeys(S \ {m})

\* Object.keys of the object into which the keys were inserted in this order.
OwnKeys(keys) ==
  LET first == FirstOccurrences(keys)
  IN SortIndexKeys({k \in Range(first) : IsArrayIndex(k)})
     \o FilterSeq(first, {i \in DOMAIN first : ~IsArrayIndex(first[i])})

(***************************************************************************)
(* The test configuration (MCPTestConfig).                                 *)
(*                                                                         *)
(* An expectation is absent ("none"), a string that the expectation        *)
(* evaluator judges on the received value ("expr"), a string of the form   *)
(* "count <op> <k>" ("count"), or a callback of the caller that is called  *)
(* with the received value ("function").                                   *)
(***************************************************************************)
NoExpect == [kind |-> "none", op |-> "", k |-> 0]
ExprExpect == [kind |-> "expr", op |-> "", k |-> 0]
FuncExpect == [kind |-> "function", op |-> "", k |-> 0]
CountExpects == {[kind |-> "count", op |-> ">", k |-> 0]}

\* The configuration `{}` that an array-form declaration gives every name.
EmptyCfg == [expect |-> NoExpect, shouldThrow |-> FALSE]

ToolCfgs == [expect : {NoExpect, ExprExpect, FuncExpect}, shouldThrow : BOOLEAN]
ResourceCfgs ==
  [expect : {NoExpect, ExprExpect, FuncExpect} \cup CountExpects, shouldThrow : {FALSE}]
PromptCfgs == [expect : {NoExpect, ExprExpect, FuncExpect}, shouldThrow : {FALSE}]

\* All sequences over S of length at most n.
SeqsUpTo(S, n) == UNION {[1..m -> S] : m \in 0..n}

\* string[]: any names in any order, each with the configuration {}.
ArrayDecls(names, n) ==
  {[form |-> "array", entries |-> e] : e \in SeqsUpTo([name : names, cfg : {EmptyCfg}], n)}

\* Record<string, Config>: distinct keys, in the order JavaScript keeps them.
ObjectDecls(names, cfgs, n) ==
  {[form |-> "object", entries |-> e] :
     e \in {x \in SeqsUpTo([name : names, cfg : cfgs], n) :
              x # <<>> /\ OwnKeys(Names(x)) = Names(x)}}

Decls(names, cfgs, n) == ArrayDecls(names, n) \cup ObjectDecls(names, cfgs, n)

\* expectedTools / expectedResources / expectedPrompts of testCapabilities
ExpectedNames(decl) ==
  IF decl.form = "array" THEN Names(decl.entries) ELSE OwnKeys(Names(decl.entries))

\* toolsToTest / resourcesToTest / promptsToTest, as Object.entries lists them
EntriesToTest(decl) ==
  IF decl.form = "array"
    THEN LET keys == OwnKeys(Names(decl.entries))
         IN [i \in 1..Len(keys) |-> [name |-> keys[i], cfg |-> EmptyCfg]]
    ELSE decl.entries

TestConfigs ==
  {c \in [tools : Decls(ToolNames, ToolCfgs, MaxDecl),
          resources : Decls(ResourcePatterns, ResourceCfgs, MaxDecl),
          prompts : Decls(PromptNames, PromptCfgs, MaxDecl),
          filter : FilterPatterns,
          skip : SkipPatterns] :
     Len(c.tools.entries) + Len(c.resources.entries) + Len(c.prompts.entries) <= MaxDecl}

(***************************************************************************)
(* Test results.                                                           *)
(***************************************************************************)
NoItem == <<>>

\* A TestResult.  Its name is `check` with the class and item it is about.
Result(check, cls, item, type, status, msg) ==
  [check |-> check, cls |-> cls, item |-> item, type |-> type, status |-> status,
   msg |-> msg, avail |-> <<>>, hasError |-> FALSE]

WithError(r) == [r EXCEPT !.hasError = TRUE]

WithAvailable(r, names) == [r EXCEPT !.avail = names]

\* The result run() adds when testConnection or getCapabilities threw.
SuiteFailure == WithError(Result("Test Suite", "", NoItem, "connection", "fail", "suite_failed"))

CountStatus(rs, st) == Cardinality({i \in DOMAIN rs : rs[i].status = st})

\* createTestSuite counting everything that did not fail as passed.
createTestSuiteSkipAsPass(rs) ==
  [total |-> Len(rs),
   passed |-> Len(rs) - CountStatus(rs, "fail"),
   failed |-> CountStatus(rs, "fail"),
   skipped |-> CountStatus(rs, "skip"),
   results |-> rs]

createTestSuite(rs) ==
  [total |-> Len(rs),
   passed |-> CountStatus(rs, "pass"),
   failed |-> CountStatus(rs, "fail"),
   skipped |-> CountStatus(rs, "skip"),
   results |-> rs]

(***************************************************************************)
(* Phase 3: the declared capabilities exist (testCapabilities).            *)
(***************************************************************************)
\* The result of one declared name or pattern that the filter/skip patterns exclude.
SkippedResult(check, cls, item, type) == Result(check, cls, item, type, "skip", "skipped")

\* NameExists with a fail message that does not list the advertised names.
NameExistsWithoutList(cls, name, available) ==
  IF \E i \in DOMAIN available : available[i] = name
    THEN Result("exists", cls, name, "capability", "pass", "available")
    ELSE Result("exists", cls, name, "capability", "fail", "not_found")

\* One declared tool or prompt name against the advertised names.
NameExists(cls, name, available) ==
  IF \E i \in DOMAIN available : available[i] = name
    THEN Result("exists", cls, name, "capability", "pass", "available")
    ELSE WithAvailable(Result("exists", cls, name, "capability", "fail", "not_found"),
                       available)

\* One declared resource pattern against the advertised URIs.
PatternExists(pattern, available) ==
  IF \E i \in DOMAIN available : matchesPattern(available[i], pattern)
    THEN Result("exists", "resource", pattern, "capability", "pass", "matched")
    ELSE WithAvailable(Result("exists", "resource", pattern, "capability", "fail", "not_found"),
                       available)

\* The existence result of one declared item.
ExistsResult(cls, item, available, cfg) ==
  IF shouldSkipTest(item, cfg.filter, cfg.skip)
    THEN SkippedResult("exists", cls, item, "capability")
  ELSE IF cls = "resource" THEN PatternExists(item, available)
  ELSE NameExists(cls, item, available)

\* The existence results of one class, in the order of the declaration.
ClassExists(cls, decl, available, cfg) ==
  LET expected == ExpectedNames(decl)
  IN [i \in 1..Len(expected) |-> ExistsResult(cls, expected[i], available, cfg)]

\* All existence results: tools, then resources, then prompts.
testCapabilities(cfg, caps) ==
  ClassExists("tool", cfg.tools, caps.tools, cfg)
    \o ClassExists("resource", cfg.resources, caps.resources, cfg)
    \o ClassExists("prompt", cfg.prompts, caps.prompts, cfg)

(***************************************************************************)
(* Phase 4: invoke and judge.                                              *)
(***************************************************************************)
\* A reply of the server to callTool, readResource or getPrompt: it failed, or
\* it returned a value on which the test's expectation evaluates to `meets`,
\* or on which the expectation callback threw.
Replies == [ok : BOOLEAN, meets : BOOLEAN, threw : BOOLEAN]

\* The switch of evaluateExpectation's length and count branches.
CompareCount(actual, op, expected) ==
  CASE op = ">" -> actual > expected
    [] op = ">=" -> actual >= expected
    [] op = "<" -> actual < expected
    [] op = "<=" -> actual <= expected
    [] op \in {"==", "==="} -> actual = expected
    [] OTHER -> FALSE

\* evaluateExpectation(value, "count <op> <k>"): the count of a value is the
\* length of an array and 0 for anything else.
evaluateCountExpectation(value, expect) ==
  CompareCount(IF value.isArray THEN value.length ELSE 0, expect.op, expect.k)

\* The number n as a value handed to evaluateExpectation.
NumberValue(n) == [isArray |-> FALSE, length |-> 0, num |-> n]

testTool(name, cfg, reply) ==
  IF reply.ok /\ ~reply.threw
    THEN IF cfg.expect.kind # "none"
           THEN IF reply.meets
                  THEN Result("execution", "tool", name, "tool", "pass", "met_expectations")
                  ELSE Result("execution", "tool", name, "tool", "fail", "unmet_expectations")
           ELSE Result("execution", "tool", name, "tool", "pass", "executed")
    ELSE IF cfg.shouldThrow
           THEN Result("execution", "tool", name, "tool", "pass", "threw_as_expected")
           ELSE WithError(Result("execution", "tool", name, "tool", "fail", "execution_failed"))

testResource(uri, cfg, reply) ==
  IF reply.ok /\ ~reply.threw
    THEN IF cfg.expect.kind # "none"
           THEN IF reply.meets
                  THEN Result("read", "resource", uri, "resource", "pass", "met_expectations")
                  ELSE Result("read", "resource", uri, "resource", "fail", "unmet_expectations")
           ELSE Result("read", "resource", uri, "resource", "pass", "executed")
    ELSE WithError(Result("read", "resource", uri, "resource", "fail", "execution_failed"))

testResourceCount(pattern, count, cfg) ==
  IF cfg.expect.kind # "none"
    THEN IF evaluateCountExpectation(NumberValue(count), cfg.expect)
           THEN Result("count", "resource", pattern, "resource", "pass", "met_expectations")
           ELSE Result("count", "resource", pattern, "resource", "fail", "unmet_expectations")
    ELSE Result("count", "resource", pattern, "resource", "pass", "executed")

testPrompt(name, cfg, reply) ==
  IF reply.ok /\ ~reply.threw
    THEN IF cfg.expect.kind # "none"
           THEN IF reply.meets
                  THEN Result("execution", "prompt", name, "prompt", "pass", "met_expectations")
                  ELSE Result("execution", "prompt", name, "prompt", "fail", "unmet_expectations")
           ELSE Result("execution", "prompt", name, "prompt", "pass", "executed")
    ELSE WithError(Result("execution", "prompt", name, "prompt", "fail", "execution_failed"))

\* The advertised resources whose URI matches the pattern, last advertised first.
matchingResourcesReversed(resources, pattern) ==
  LET found == FilterSeq(resources,
                         {i \in DOMAIN resources : matchesPattern(resources[i], pattern)})
  IN [i \in DOMAIN found |-> found[Len(found) + 1 - i]]

\* The advertised resources whose URI matches the pattern, in advertised order.
matchingResources(resources, pattern) ==
  FilterSeq(resources, {i \in DOMAIN resources : matchesPattern(resources[i], pattern)})

Tagged(cls, entries) ==
  [i \in 1..Len(entries) |-> [cls |-> cls, name |-> entries[i].name, cfg |-> entries[i].cfg]]

\* What testTools, testResources and testPrompts go through, in this order.
ExecItems(cfg) ==
  Tagged("tool", EntriesToTest(cfg.tools))
    \o Tagged("resource", EntriesToTest(cfg.resources))
    \o Tagged("prompt", EntriesToTest(cfg.prompts))

RECURSIVE RunFrom(_, _, _, _)
\* The runner from item k on, up to its next awaited client call: the results
\* it adds without awaiting, the item it stops at and the call it issues.
\* Past the last item the call is cleanup's disconnect.
RunFrom(cfg, caps, k, rs) ==
  LET items == ExecItems(cfg)
  IN IF k > Len(items)
       THEN [results |-> rs, cursor |-> k, call |-> [op |-> "disconnect", arg |-> NoItem]]
     ELSE LET it == items[k]
              matching == matchingResources(caps.resources, it.name)
          IN IF shouldSkipTest(it.name, cfg.filter, cfg.skip)
               THEN RunFrom(cfg, caps, k + 1,
                            Append(rs, SkippedResult("execution", it.cls, it.name, it.cls)))
             ELSE IF it.cls = "tool"
               THEN [results |-> rs, cursor |-> k, call |-> [op |-> "callTool", arg |-> it.name]]
             ELSE IF it.cls = "prompt"
               THEN [results |-> rs, cursor |-> k, call |-> [op |-> "getPrompt", arg |-> it.name]]
             ELSE IF matching = <<>>
               THEN RunFrom(cfg, caps, k + 1,
                            Append(rs, Result("test", "resource", it.name, "resource", "fail",
                                              "no_match")))
             ELSE IF it.cfg.expect.kind = "count"
               THEN RunFrom(cfg, caps, k + 1,
                            Append(rs, testResourceCount(it.name, Len(matching), it.cfg)))
             ELSE [results |-> rs, cursor |-> k,
                   call |-> [op |-> "readResource", arg |-> matching[1]]]

(***************************************************************************)
(* The state of one runner and of its client.                              *)
(***************************************************************************)
VARIABLES
  testConfig,    \* the MCPTestConfig given to the constructor
  pc,            \* the awaited call at which run() is suspended
  cursor,        \* the item of ExecItems whose call is awaited
  capabilities,  \* what the client's getCapabilities has collected so far
  results,       \* this.results
  calls,         \* every client call issued so far, in order
  pending,       \* the client calls issued and not yet settled
  env,           \* how connect, ping, the listings and disconnect settled
  replies,       \* how the invocations settled, in order
  returned,      \* how run()'s promise settled: "none", "suite" or "thrown"
  suite          \* the TestSuite run() returned

vars == <<testConfig, pc, cursor, capabilities, results, calls, pending, env,
          replies, returned, suite>>

\* The snapshot store (SnapshotManager) and its directory.
VARIABLES
  disk,          \* the .snap.json files of the snapshot directory, by snapshot name
  stores,        \* the SnapshotManager instances: updateSnapshots and this.snapshots
  saves,         \* how many times saveSnapshot wrote the file of a snapshot name
  clock,         \* the time new Date() reads
  last           \* the latest call on a store, with what it returned

storeVars == <<disk, saves, stores, clock, last>>

\* The state of the components a run of MCPTestRunner does not touch.
\* The latest evaluation of an expectation string by evaluateExpectation.
VARIABLE evaluated

\* The latest run of MCPProtocolValidator.validate().
VARIABLE validation

\* The latest call of matchesPattern.
VARIABLE matched

\* The connect(timeout) of the client that is under way.
VARIABLE connecting

\* The two SnapshotManager instances that write one snapshot file at a time.
VARIABLE racing

\* The WatchMode instance that is started.
VARIABLE watching

moreVars == <<racing, watching>>

restVars == <<validation, matched, connecting, moreVars>>

outsideRunner == <<storeVars, evaluated, restVars>>

\* No validator has been constructed.
ValidatorParked == validation = <<>>

\* No pattern has been matched.
PatternParked == matched = <<>>

\* The client's connect is not looked into.
ConnectParked == connecting = <<>>

\* No other component is in use.
\* No two stores write at a time, and no WatchMode is started.
MoreParked == racing = <<>> /\ watching = <<>>

RestParked == ValidatorParked /\ PatternParked /\ ConnectParked /\ MoreParked

\* No expectation string has been evaluated.
EvalParked == evaluated = <<>>

\* No snapshot store has been constructed.
StoreParked ==
  /\ disk = <<>>
  /\ saves = <<>>
  /\ stores = <<>>
  /\ clock = 0
  /\ last = <<>>

NoListing == [outcome |-> "none", list |-> <<>>]

Init ==
  /\ testConfig \in TestConfigs
  /\ pc = "idle"
  /\ cursor = 0
  /\ capabilities = [tools |-> <<>>, resources |-> <<>>, prompts |-> <<>>]
  /\ results = <<>>
  /\ calls = <<>>
  /\ pending = {}
  /\ env = [connect |-> "none", ping |-> "none", tools |-> NoListing,
            resources |-> NoListing, prompts |-> NoListing, disconnect |-> "none"]
  /\ replies = <<>>
  /\ returned = "none"
  /\ suite = createTestSuite(<<>>)
  /\ StoreParked
  /\ EvalParked
  /\ RestParked

\* Settle for a call that was issued without being awaited: the runner goes
\* on while the call is still outstanding.
SettleUnawaited(op) == pending

\* The awaited call `op` settles.
Settle(op) == pending \ {c \in pending : c.op = op}

\* run() up to testConnection's await of client.connect(timeout).
StartRun ==
  /\ pc = "idle"
  /\ results' = <<>>
  /\ calls' = <<[op |-> "connect", arg |-> NoItem]>>
  /\ pending' = {[op |-> "connect", arg |-> NoItem]}
  /\ pc' = "connect"
  /\ UNCHANGED <<outsideRunner, testConfig, cursor, capabilities, env, replies, returned, suite>>

\* Abort without the 'Test Suite' result of run()'s catch block.
AbortSilently(failure) ==
  /\ results' = Append(results, failure)
  /\ calls' = Append(calls, [op |-> "disconnect", arg |-> NoItem])
  /\ pc' = "disconnect"

\* run()'s catch and finally after testConnection or getCapabilities threw:
\* the failing result, the 'Test Suite' result, then cleanup's disconnect.
Abort(failure) ==
  /\ results' = results \o <<failure, SuiteFailure>>
  /\ calls' = Append(calls, [op |-> "disconnect", arg |-> NoItem])
  /\ pc' = "disconnect"

\* ConnectSettles without testConnection's `throw error`: the failure is
\* recorded and the run goes on to ping and discovery.
ConnectSettlesSwallowing ==
  /\ pc = "connect"
  /\ \E o \in {"ok", "error", "timeout"} :
       /\ env' = [env EXCEPT !.connect = o]
       /\ results' = IF o = "ok" THEN results
                     ELSE Append(results,
                            WithError(Result("Server Connection", "", NoItem, "connection",
                                             "fail", "connect_failed")))
  /\ calls' = Append(calls, [op |-> "ping", arg |-> NoItem])
  /\ pending' = Settle("connect") \cup {[op |-> "ping", arg |-> NoItem]}
  /\ pc' = "ping"
  /\ UNCHANGED <<outsideRunner, testConfig, cursor, capabilities, replies, returned, suite>>

\* testConnection and run() once client.connect has settled as `o`.
ConnectSettlesAs(o) ==
  /\ pc = "connect"
  /\ env' = [env EXCEPT !.connect = o]
  /\ IF o = "ok"
       THEN /\ calls' = Append(calls, [op |-> "ping", arg |-> NoItem])
            /\ pending' = Settle("connect") \cup {[op |-> "ping", arg |-> NoItem]}
            /\ pc' = "ping"
            /\ UNCHANGED results
       ELSE /\ Abort(WithError(Result("Server Connection", "", NoItem, "connection",
                                      "fail", "connect_failed")))
            /\ pending' = Settle("connect") \cup {[op |-> "disconnect", arg |-> NoItem]}
  /\ UNCHANGED <<outsideRunner, testConfig, cursor, capabilities, replies, returned, suite>>

\* client.connect settles: the handshake succeeded, failed, or the timer of
\* connectWithTimeout fired first.
ConnectSettles == \E o \in {"ok", "error", "timeout"} : ConnectSettlesAs(o)

\* PingSettles with a failed ping treated as a failed connection.
PingSettlesFatal ==
  /\ pc = "ping"
  /\ \E canPing \in BOOLEAN :
       /\ env' = [env EXCEPT !.ping = IF canPing THEN "ok" ELSE "error"]
       /\ IF canPing
            THEN /\ results' = Append(results,
                       Result("Server Connection", "", NoItem, "connection", "pass",
                              "connected_ping"))
                 /\ calls' = Append(calls, [op |-> "listTools", arg |-> NoItem])
                 /\ pending' = Settle("ping") \cup {[op |-> "listTools", arg |-> NoItem]}
                 /\ pc' = "listTools"
            ELSE /\ Abort(WithError(Result("Server Connection", "", NoItem, "connection",
                                           "fail", "connect_failed")))
                 /\ pending' = Settle("ping") \cup {[op |-> "disconnect", arg |-> NoItem]}
  /\ UNCHANGED <<outsideRunner, testConfig, cursor, capabilities, replies, returned, suite>>

\* client.ping settles (it never rejects): the connection result is recorded
\* and getCapabilities starts with the tools listing.
PingSettles ==
  /\ pc = "ping"
  /\ \E canPing \in BOOLEAN :
       /\ env' = [env EXCEPT !.ping = IF canPing THEN "ok" ELSE "error"]
       /\ results' = Append(results,
            Result("Server Connection", "", NoItem, "connection", "pass",
                   IF canPing THEN "connected_ping" ELSE "connected"))
  /\ calls' = Append(calls, [op |-> "listTools", arg |-> NoItem])
  /\ pending' = Settle("ping") \cup {[op |-> "listTools", arg |-> NoItem]}
  /\ pc' = "listTools"
  /\ UNCHANGED <<outsideRunner, testConfig, cursor, capabilities, replies, returned, suite>>

\* How a listing call can settle: the advertised list, 'Method not found', or
\* any other error.
Listings(catalogs) ==
  {[outcome |-> "ok", list |-> c] : c \in catalogs}
    \cup {[outcome |-> "mnf", list |-> <<>>], [outcome |-> "error", list |-> <<>>]}

DiscoveryFailure ==
  WithError(Result("Capability Discovery", "", NoItem, "capability", "fail", "discovery_failed"))

\* ListSettles without the 'Method not found' exemption: every listing error
\* is rethrown.
ListSettlesStrict(op, cls, catalogs, next) ==
  /\ pc = op
  /\ \E l \in Listings(catalogs) :
       /\ env' = [env EXCEPT ![cls] = l]
       /\ IF l.outcome # "ok"
            THEN /\ Abort(DiscoveryFailure)
                 /\ pending' = Settle(op) \cup {[op |-> "disconnect", arg |-> NoItem]}
                 /\ UNCHANGED capabilities
            ELSE /\ capabilities' = [capabilities EXCEPT ![cls] = l.list]
                 /\ calls' = Append(calls, [op |-> next, arg |-> NoItem])
                 /\ pending' = Settle(op) \cup {[op |-> next, arg |-> NoItem]}
                 /\ pc' = next
                 /\ UNCHANGED results
  /\ UNCHANGED <<outsideRunner, testConfig, cursor, replies, returned, suite>>

\* ListSettles with every listing error tolerated like 'Method not found':
\* the class is left empty and the next listing follows.
ListSettlesLenient(op, cls, catalogs, next) ==
  /\ pc = op
  /\ \E l \in Listings(catalogs) :
       /\ env' = [env EXCEPT ![cls] = l]
       /\ capabilities' = [capabilities EXCEPT ![cls] = l.list]
       /\ calls' = Append(calls, [op |-> next, arg |-> NoItem])
       /\ pending' = Settle(op) \cup {[op |-> next, arg |-> NoItem]}
       /\ pc' = next
       /\ UNCHANGED results
  /\ UNCHANGED <<outsideRunner, testConfig, cursor, replies, returned, suite>>

\* One listing of client.getCapabilities settles; `next` is the listing that follows.
ListSettles(op, cls, catalogs, next) ==
  /\ pc = op
  /\ \E l \in Listings(catalogs) :
       /\ env' = [env EXCEPT ![cls] = l]
       /\ IF l.outcome = "error"
            THEN /\ Abort(DiscoveryFailure)
                 /\ pending' = Settle(op) \cup {[op |-> "disconnect", arg |-> NoItem]}
                 /\ UNCHANGED capabilities
            ELSE /\ capabilities' = [capabilities EXCEPT ![cls] = l.list]
                 /\ calls' = Append(calls, [op |-> next, arg |-> NoItem])
                 /\ pending' = Settle(op) \cup {[op |-> next, arg |-> NoItem]}
                 /\ pc' = next
                 /\ UNCHANGED results
  /\ UNCHANGED <<outsideRunner, testConfig, cursor, replies, returned, suite>>

ListToolsSettles == ListSettles("listTools", "tools", ToolCatalogs, "listResources")

ListResourcesSettles == ListSettles("listResources", "resources", ResourceCatalogs, "listPrompts")

\* The runner moves on from item k with the results rs.
Continue(caps, k, rs) ==
  LET next == RunFrom(testConfig, caps, k, rs)
  IN /\ results' = next.results
     /\ cursor' = next.cursor
     /\ calls' = Append(calls, next.call)
     /\ pending' = Settle(pc) \cup {next.call}
     /\ pc' = next.call.op

\* The last listing settles: getCapabilities returns, the discovery result is
\* recorded, testCapabilities runs and testTools starts.
ListPromptsSettles ==
  /\ pc = "listPrompts"
  /\ \E l \in Listings(PromptCatalogs) :
       /\ env' = [env EXCEPT !.prompts = l]
       /\ IF l.outcome = "error"
            THEN /\ Abort(DiscoveryFailure)
                 /\ pending' = Settle("listPrompts") \cup {[op |-> "disconnect", arg |-> NoItem]}
                 /\ UNCHANGED <<capabilities, cursor>>
            ELSE LET caps == [capabilities EXCEPT !.prompts = l.list]
                 IN /\ capabilities' = caps
                    /\ Continue(caps, 1,
                         Append(results, Result("Capability Discovery", "", NoItem,
                                                "capability", "pass", "found"))
                           \o testCapabilities(testConfig, caps))
  /\ UNCHANGED <<outsideRunner, testConfig, replies, returned, suite>>

\* The replies the server can give to the test `item`: without an expectation
\* the returned value is not looked at.
RepliesTo(item) ==
  {r \in Replies :
     /\ (~r.ok \/ item.cfg.expect.kind = "none") => r.meets
     /\ r.threw => (r.ok /\ item.cfg.expect.kind = "function" /\ ~r.meets)}

\* CallToolSettles with a failing call treated like a failed phase: the error
\* goes to run()'s catch and the remaining tests are not run.
CallToolSettlesAborting ==
  /\ pc = "callTool"
  /\ LET item == ExecItems(testConfig)[cursor]
     IN \E r \in RepliesTo(item) :
          /\ replies' = Append(replies, [op |-> "callTool", arg |-> item.name,
                                         ok |-> r.ok, meets |-> r.meets, threw |-> r.threw])
          /\ IF r.ok \/ item.cfg.shouldThrow
               THEN Continue(capabilities, cursor + 1,
                             Append(results, testTool(item.name, item.cfg, r)))
               ELSE /\ Abort(testTool(item.name, item.cfg, r))
                    /\ pending' = Settle("callTool") \cup {[op |-> "disconnect", arg |-> NoItem]}
                    /\ UNCHANGED cursor
  /\ UNCHANGED <<outsideRunner, testConfig, capabilities, env, returned, suite>>

\* client.callTool settles: testTool records its result and the runner moves on.
CallToolSettles ==
  /\ pc = "callTool"
  /\ LET item == ExecItems(testConfig)[cursor]
     IN \E r \in RepliesTo(item) :
          /\ replies' = Append(replies, [op |-> "callTool", arg |-> item.name,
                                         ok |-> r.ok, meets |-> r.meets, threw |-> r.threw])
          /\ Continue(capabilities, cursor + 1,
                      Append(results, testTool(item.name, item.cfg, r)))
  /\ UNCHANGED <<outsideRunner, testConfig, capabilities, env, returned, suite>>

\* client.readResource settles.
ReadResourceSettles ==
  /\ pc = "readResource"
  /\ LET item == ExecItems(testConfig)[cursor]
         uri == matchingResources(capabilities.resources, item.name)[1]
     IN \E r \in RepliesTo(item) :
          /\ replies' = Append(replies, [op |-> "readResource", arg |-> uri,
                                         ok |-> r.ok, meets |-> r.meets, threw |-> r.threw])
          /\ Continue(capabilities, cursor + 1,
                      Append(results, testResource(uri, item.cfg, r)))
  /\ UNCHANGED <<outsideRunner, testConfig, capabilities, env, returned, suite>>

\* client.getPrompt settles.
GetPromptSettles ==
  /\ pc = "getPrompt"
  /\ LET item == ExecItems(testConfig)[cursor]
     IN \E r \in RepliesTo(item) :
          /\ replies' = Append(replies, [op |-> "getPrompt", arg |-> item.name,
                                         ok |-> r.ok, meets |-> r.meets, threw |-> r.threw])
          /\ Continue(capabilities, cursor + 1,
                      Append(results, testPrompt(item.name, item.cfg, r)))
  /\ UNCHANGED <<outsideRunner, testConfig, capabilities, env, returned, suite>>

\* DisconnectSettles without cleanup's try/catch: a failing disconnect
\* rejects run().
DisconnectSettlesRethrowing ==
  /\ pc = "disconnect"
  /\ \E o \in {"ok", "error"} :
       /\ env' = [env EXCEPT !.disconnect = o]
       /\ returned' = IF o = "ok" THEN "suite" ELSE "thrown"
       /\ suite' = IF o = "ok" THEN createTestSuite(results) ELSE suite
  /\ pending' = Settle("disconnect")
  /\ pc' = "done"
  /\ UNCHANGED <<outsideRunner, testConfig, cursor, capabilities, results, calls, replies>>

\* cleanup: client.disconnect settles, an error is ignored, and run() returns
\* createTestSuite().
DisconnectSettles ==
  /\ pc = "disconnect"
  /\ \E o \in {"ok", "error"} : env' = [env EXCEPT !.disconnect = o]
  /\ pending' = Settle("disconnect")
  /\ suite' = createTestSuite(results)
  /\ returned' = "suite"
  /\ pc' = "done"
  /\ UNCHANGED <<outsideRunner, testConfig, cursor, capabilities, results, calls, replies>>

Next ==
  \/ StartRun
  \/ ConnectSettles
  \/ PingSettles
  \/ ListToolsSettles
  \/ ListResourcesSettles
  \/ ListPromptsSettles
  \/ CallToolSettles
  \/ ReadResourceSettles
  \/ GetPromptSettles
  \/ DisconnectSettles

Spec == Init /\ [][Next]_vars

(***************************************************************************)
(* Reading the state.                                                      *)
(***************************************************************************)
ListingOps == {"listTools", "listResources", "listPrompts"}
InvocationOps == {"callTool", "readResource", "getPrompt"}
ExecChecks == {"execution", "read", "count", "test"}

\* The positions of the calls of an operation among the calls issued so far.
CallsOf(ops) == {i \in DOMAIN calls : calls[i].op \in ops}

Done == pc = "done"

ConnectFailed == env.connect \in {"error", "timeout"}

\* Each of the three listings has settled without a fatal error.
DiscoverySucceeded ==
  \A cls \in {"tools", "resources", "prompts"} : env[cls].outcome \in {"ok", "mnf"}

HasResult(check, status) ==
  \E i \in DOMAIN results : results[i].check = check /\ results[i].status = status

(***************************************************************************)
(* C1: every TestSuite that run() returns has total = len(results) and     *)
(* total = passed + failed + skipped, whatever the outcomes of connection, *)
(* discovery and the invocations were.                                     *)
(***************************************************************************)
C1_SuiteCountsAddUp ==
  returned = "suite" =>
    /\ suite.results = results
    /\ suite.total = Len(suite.results)
    /\ suite.total = suite.passed + suite.failed + suite.skipped

\* A returned suite that holds passed, failed and skipped results.
C1_Witness ==
  /\ returned = "suite"
  /\ suite.passed > 0
  /\ suite.failed > 0
  /\ suite.skipped > 0

(***************************************************************************)
(* C2: once connect has failed (an error or the timeout) the run issues no *)
(* listing call and no tool, resource or prompt invocation, and the        *)
(* connection result, the first of the list, is a fail.                    *)
(***************************************************************************)
C2_ConnectFailureStopsRun ==
  ConnectFailed =>
    /\ CallsOf(ListingOps \cup InvocationOps \cup {"ping"}) = {}
    /\ Len(results) >= 1
    /\ results[1].check = "Server Connection"
    /\ results[1].status = "fail"
    /\ ~HasResult("Server Connection", "pass")

\* A finished run whose connect timed out although a tool was declared.
C2_Witness ==
  /\ Done
  /\ env.connect = "timeout"
  /\ testConfig.tools.entries # <<>>

(***************************************************************************)
(* C3: when the connection phase fails, run() rejects with the connection  *)
(* error instead of completing normally.                                   *)
(***************************************************************************)
C3_ConnectFailureRejects ==
  (Done /\ ConnectFailed) => returned = "thrown"

(***************************************************************************)
(* C4: every run calls client.disconnect() exactly once, after all its     *)
(* other client calls, whether it went through all phases or aborted in    *)
(* connect or discovery; a failing disconnect does not escape run() and    *)
(* leaves the returned results as they were.                               *)
(***************************************************************************)
C4_DisconnectOnceAndLast ==
  /\ Cardinality(CallsOf({"disconnect"})) <= 1
  /\ CallsOf({"disconnect"}) \subseteq {Len(calls)}
  /\ pc \in {"disconnect", "done"} => CallsOf({"disconnect"}) = {Len(calls)}
  /\ Done =>
       /\ pending = {}
       /\ returned = "suite"
       /\ suite.results = results

\* Two finished runs in one: disconnect failed after discovery had aborted.
C4_Witness ==
  /\ Done
  /\ env.disconnect = "error"
  /\ env.resources.outcome = "error"
  /\ Len(calls) = 5

(***************************************************************************)
(* C5: the three capability classes are listed independently.  A listing   *)
(* that fails with 'Method not found' leaves that class empty and the      *)
(* other classes as advertised, and the run proceeds: when no listing      *)
(* fails otherwise, all three are called, the discovery result is a pass   *)
(* and the existence checks follow.  A tools-only server gives             *)
(* resources = [] and prompts = [].                                        *)
(***************************************************************************)
C5_DiscoveryTolerant ==
  /\ \A cls \in {"tools", "resources", "prompts"} :
       /\ env[cls].outcome = "mnf" => capabilities[cls] = <<>>
       /\ env[cls].outcome = "ok" => capabilities[cls] = env[cls].list
  /\ env.tools.outcome = "mnf" => CallsOf({"listResources"}) # {}
  /\ env.resources.outcome = "mnf" => CallsOf({"listPrompts"}) # {}
  /\ DiscoverySucceeded =>
       /\ Len(results) >= 2
       /\ results[2].check = "Capability Discovery"
       /\ results[2].status = "pass"
       /\ ~HasResult("Test Suite", "fail")
       /\ Len(results) >= 2 + Len(testCapabilities(testConfig, capabilities))

\* A tools-only server: its tools are discovered, the other classes are empty
\* and a declared tool has been called.
C5_Witness ==
  /\ Done
  /\ env.tools.outcome = "ok"
  /\ env.resources.outcome = "mnf"
  /\ env.prompts.outcome = "mnf"
  /\ capabilities.tools # <<>>
  /\ capabilities.resources = <<>>
  /\ capabilities.prompts = <<>>
  /\ HasResult("Capability Discovery", "pass")
  /\ CallsOf({"callTool"}) # {}

(***************************************************************************)
(* The declaration and the results, side by side.                          *)
(***************************************************************************)
\* The names of a class as the caller wrote them (an array keeps repetitions).
DeclaredNames(cls, decl) ==
  [i \in 1..Len(decl.entries) |-> [cls |-> cls, name |-> decl.entries[i].name]]

\* Every declared item: tools, then resources, then prompts.
DeclaredItems ==
  DeclaredNames("tool", testConfig.tools)
    \o DeclaredNames("resource", testConfig.resources)
    \o DeclaredNames("prompt", testConfig.prompts)

IsExists(r) == r.check = "exists"
IsExec(r) == r.check \in ExecChecks
\* An execution result that came from a call to the server.
IsInvoked(r) == r.check \in {"execution", "read"} /\ r.msg # "skipped"

ExistsResults == SelectSeq(results, IsExists)
ExecResults == SelectSeq(results, IsExec)
InvokedResults == SelectSeq(results, IsInvoked)

\* Whether the execution result r is the result of the declared item d.
ResultOf(r, d) ==
  /\ r.cls = d.cls
  /\ \/ r.item = d.name
     \/ r.check = "read" /\ matchesPattern(r.item, d.name)

PhaseRank(r) ==
  CASE r.check = "Server Connection" -> 1
    [] r.check = "Capability Discovery" -> 2
    [] r.check = "exists" -> 3
    [] r.check \in ExecChecks -> 4
    [] OTHER -> 5

(***************************************************************************)
(* C6: in the result list the connection result comes first, then the      *)
(* discovery result, then the existence results, then the execution        *)
(* results; within the existence results and within the execution results  *)
(* the order is the order in which the capabilities were declared.  Stated *)
(* for the runs that set no filter and no skip pattern.                    *)
(***************************************************************************)
C6_ResultsInDeclaredOrder ==
  (testConfig.filter = NoPattern /\ testConfig.skip = NoPattern) =>
  /\ \A i, j \in DOMAIN results : i < j => PhaseRank(results[i]) <= PhaseRank(results[j])
  /\ results # <<>> => results[1].check = "Server Connection"
  /\ ExistsResults # <<>> =>
       /\ Len(ExistsResults) = Len(DeclaredItems)
       /\ \A k \in DOMAIN ExistsResults :
            /\ ExistsResults[k].cls = DeclaredItems[k].cls
            /\ ExistsResults[k].item = DeclaredItems[k].name
  /\ LET declared == FirstOccurrences(DeclaredItems)
     IN /\ Len(ExecResults) <= Len(declared)
        /\ \A k \in DOMAIN ExecResults : ResultOf(ExecResults[k], declared[k])

(***************************************************************************)
(* C7: a declared capability whose name matches the skip pattern gets the  *)
(* status skip, in its existence check and in its execution, and is not    *)
(* invoked, also when it matches the filter pattern.  With filter "get*"   *)
(* and skip "weather", getWeather is skipped and getUser is executed.      *)
(***************************************************************************)
SkipMatches(name) ==
  testConfig.skip # NoPattern /\ matchesFilterPattern(name, testConfig.skip)

FilterMatches(name) == matchesFilterPattern(name, testConfig.filter)

\* The call that executing the declared item d would issue has been issued.
Invoked(d) ==
  \E i \in DOMAIN calls :
    /\ calls[i].op = (CASE d.cls = "tool" -> "callTool"
                        [] d.cls = "prompt" -> "getPrompt"
                        [] OTHER -> "readResource")
    /\ \/ calls[i].arg = d.name
       \/ d.cls = "resource" /\ matchesPattern(calls[i].arg, d.name)

\* The item at position k of ExecItems has been dealt with.
Passed(k) == Done \/ (pc \in InvocationOps \cup {"disconnect"} /\ cursor > k)

NormalExists(d) ==
  IF d.cls = "resource" THEN PatternExists(d.name, capabilities.resources)
  ELSE NameExists(d.cls, d.name, IF d.cls = "tool" THEN capabilities.tools
                                 ELSE capabilities.prompts)

\* Whether executing the item, when no pattern excludes it, calls the server.
Invocable(it) ==
  it.cls = "resource" =>
    /\ matchingResources(capabilities.resources, it.name) # <<>>
    /\ it.cfg.expect.kind # "count"

ToolCfg(name) ==
  LET entries == EntriesToTest(testConfig.tools)
  IN entries[CHOOSE i \in DOMAIN entries : entries[i].name = name].cfg

C9_ShouldThrowPassIffError ==
  \A k \in DOMAIN replies :
    (replies[k].op = "callTool" /\ ToolCfg(replies[k].arg).shouldThrow) =>
      /\ InvokedResults[k].item = replies[k].arg
      /\ (InvokedResults[k].status = "pass") <=> ~replies[k].ok

(***************************************************************************)
(* C10, as stated: an invocation error is recorded as a fail result of     *)
(* that capability.                                                        *)
(***************************************************************************)
C10_EveryErrorIsAFail ==
  \A k \in DOMAIN replies :
    ~replies[k].ok =>
      /\ InvokedResults[k].item = replies[k].arg
      /\ InvokedResults[k].status = "fail"

\* The reply is a test failure: an error the test did not ask for, or a value
\* that does not meet the expectation.
FailingReply(r) ==
  \/ (~r.ok \/ r.threw) /\ ~(r.op = "callTool" /\ ToolCfg(r.arg).shouldThrow)
  \/ r.ok /\ ~r.threw /\ ~r.meets

(***************************************************************************)
(* C10, amended: an invocation error of a test not declared shouldThrow,   *)
(* or an expectation mismatch, is recorded as a fail result of that        *)
(* capability only.  Every capability declared after it still gets its own *)
(* result, is invoked unless it is skipped, matches no resource or is a    *)
(* count check, and run() completes normally.                              *)
(***************************************************************************)
C10_FailuresAreIsolated ==
  /\ Len(InvokedResults) = Len(replies)
  /\ \A k \in DOMAIN replies :
       /\ InvokedResults[k].item = replies[k].arg
       /\ (InvokedResults[k].status = "fail") <=> FailingReply(replies[k])
  /\ (Done /\ DiscoverySucceeded) =>
       /\ returned = "suite"
       /\ ~HasResult("Test Suite", "fail")
       /\ Len(ExecResults) = Len(ExecItems(testConfig))
       /\ \A k \in DOMAIN ExecResults :
            LET it == ExecItems(testConfig)[k]
            IN /\ ResultOf(ExecResults[k], it)
               /\ (~shouldSkipTest(it.name, testConfig.filter, testConfig.skip)
                   /\ Invocable(it)) => /\ Invoked(it)
                                        /\ IsInvoked(ExecResults[k])

\* A finished run in which the first tool call failed, the test failed, and
\* the prompt declared after it was still fetched and passed.
C10_Witness ==
  /\ Done
  /\ Len(replies) = 2
  /\ replies[1].op = "callTool"
  /\ ~replies[1].ok
  /\ replies[2].op = "getPrompt"
  /\ InvokedResults[1].status = "fail"
  /\ InvokedResults[2].status = "pass"
  /\ returned = "suite"

\* The names the server advertises for the class of a tool or prompt result.
Catalog(cls) == IF cls = "tool" THEN capabilities.tools ELSE capabilities.prompts

\* The existence results of declared tools and prompts.
IsNameCheck(r) == r.check = "exists" /\ r.cls \in {"tool", "prompt"}

MaxClock == 3

JUndefined == [t |-> "undefined", v |-> 0, e |-> <<>>]
JNull == [t |-> "null", v |-> 0, e |-> <<>>]
JNum(n) == [t |-> "number", v |-> n, e |-> <<>>]
JObject(entries) == [t |-> "object", v |-> 0, e |-> entries]
JArray(entries) == [t |-> "array", v |-> 0, e |-> entries]

Entry(key, val) == [k |-> key, val |-> val]

DigitChars == <<"0", "1", "2", "3", "4", "5", "6", "7", "8", "9">>

\* The property name of the array index i (arrays here have at most ten elements).
IndexKey(i) == <<DigitChars[i + 1]>>

\* An array literal.
JList(items) == JArray([i \in 1..Len(items) |-> Entry(IndexKey(i - 1), items[i])])

\* typeof value === 'object' && value !== null
IsContainer(val) == val.t \in {"object", "array"}

\* typeof value
TypeOf(val) == IF val.t \in {"object", "array", "null"} THEN "object" ELSE val.t

\* The elements of an array: its index properties, without any other property.
Elements(val) == FilterSeq(val.e, {i \in DOMAIN val.e : IsArrayIndex(val.e[i].k)})

\* Object.keys(value)
ObjectKeys(val) == [i \in 1..Len(val.e) |-> val.e[i].k]

\* key in value, for an object or an array.
HasKey(val, key) == \E i \in DOMAIN val.e : val.e[i].k = key

\* value[key]: undefined when the value has no such property.
Prop(val, key) ==
  IF IsContainer(val) /\ HasKey(val, key)
    THEN val.e[CHOOSE i \in DOMAIN val.e : val.e[i].k = key].val
    ELSE JUndefined

\* value[key] = x on an object or an array: an own property keeps its place, a
\* new one is added in own-property order (integer-like keys first, ascending).
PutProp(val, key, x) ==
  IF HasKey(val, key)
    THEN [val EXCEPT !.e = [i \in DOMAIN val.e |->
                              IF val.e[i].k = key THEN Entry(key, x) ELSE val.e[i]]]
    ELSE LET added == Append(val.e, Entry(key, x))
             order == OwnKeys([i \in DOMAIN added |-> added[i].k])
         IN [val EXCEPT !.e = [i \in DOMAIN order |->
                                 added[CHOOSE h \in DOMAIN added : added[h].k = order[i]]]]

\* delete value[key] on an object; on an array the element becomes a hole.
RemoveProp(val, key) ==
  IF val.t = "array" /\ IsArrayIndex(key)
    THEN IF HasKey(val, key) THEN PutProp(val, key, JUndefined) ELSE val
    ELSE [val EXCEPT !.e = FilterSeq(val.e, {i \in DOMAIN val.e : val.e[i].k # key})]

(***************************************************************************)
(* Strings: the order of Array.prototype.sort() and path.split().          *)
(***************************************************************************)
\* The characters used, in the order of their UTF-16 code units.
CodeOrder ==
  <<"0", "1", "2", "3", "4", "5", "6", "7", "8", "9",
    "a", "b", "c", "d", "e", "f", "g", "h", "i", "j", "k", "l", "m",
    "n", "o", "p", "q", "r", "s", "t", "u", "v", "w", "x", "y", "z">>

CharCode(c) == CHOOSE i \in DOMAIN CodeOrder : CodeOrder[i] = c

\* a < b as JavaScript compares strings.
RECURSIVE StringLess(_, _)
StringLess(a, b) ==
  IF b = <<>> THEN FALSE
  ELSE IF a = <<>> THEN TRUE
  ELSE IF Head(a) = Head(b) THEN StringLess(Tail(a), Tail(b))
  ELSE CharCode(Head(a)) < CharCode(Head(b))

\* keys.sort(): the keys in ascending string order.
RECURSIVE SortStrings(_)
SortStrings(keys) ==
  IF keys = <<>> THEN <<>>
  ELSE LET m == CHOOSE i \in DOMAIN keys :
                  \A j \in DOMAIN keys : ~StringLess(keys[j], keys[i])
       IN <<keys[m]>> \o SortStrings(FilterSeq(keys, DOMAIN keys \ {m}))

\* path.split(/[\.\[\]]/): the pieces between the separators, empty ones included.
RECURSIVE SplitPath(_, _)
SplitPath(path, piece) ==
  IF path = <<>> THEN <<piece>>
  ELSE IF Head(path) \in {".", "[", "]"}
    THEN <<piece>> \o SplitPath(Tail(path), <<>>)
  ELSE SplitPath(Tail(path), Append(piece, Head(path)))

\* path.split(/[\.\[\]]/).filter(Boolean)
PathParts(path) ==
  LET pieces == SplitPath(path, <<>>)
  IN FilterSeq(pieces, {i \in DOMAIN pieces : pieces[i] # <<>>})

\* !isNaN(Number(part)) for a part made of letters and digits.
IsNumeric(part) == \A i \in DOMAIN part : part[i] \in Digits
(***************************************************************************)
(* Paths into a value.  An operation that throws a TypeError returns       *)
(* ok = FALSE.                                                             *)
(***************************************************************************)
Returned(val) == [ok |-> TRUE, val |-> val]
Thrown == [ok |-> FALSE, val |-> JUndefined]

RECURSIVE GetParts(_, _)
GetParts(current, parts) ==
  IF parts = <<>> THEN current
  ELSE IF current.t \in {"null", "undefined"} THEN JUndefined
  ELSE GetParts(Prop(current, Head(parts)), Tail(parts))

getNestedProperty(obj, path) == GetParts(obj, PathParts(path))

\* setNestedProperty from `current` on: `part in current` and the assignment
\* throw on a value that is not an object.
RECURSIVE SetParts(_, _, _)
SetParts(current, parts, value) ==
  IF ~IsContainer(current) THEN Thrown
  ELSE IF Len(parts) = 1 THEN Returned(PutProp(current, parts[1], value))
  ELSE LET part == parts[1]
           child == IF HasKey(current, part) THEN Prop(current, part)
                    ELSE IF IsNumeric(parts[2]) THEN JArray(<<>>)
                    ELSE JObject(<<>>)
           below == SetParts(child, Tail(parts), value)
       IN IF below.ok THEN Returned(PutProp(current, part, below.val)) ELSE Thrown

setNestedProperty(obj, path, value) ==
  IF PathParts(path) = <<>> THEN Returned(obj)
  ELSE SetParts(obj, PathParts(path), value)

\* deleteNestedProperty from `current` on: `part in current` throws on a value
\* that is not an object, `delete current[last]` on null and undefined.
RECURSIVE DeleteParts(_, _)
DeleteParts(current, parts) ==
  IF Len(parts) = 1
    THEN IF current.t \in {"null", "undefined"} THEN Thrown
         ELSE IF IsContainer(current) THEN Returned(RemoveProp(current, parts[1]))
         ELSE Returned(current)
  ELSE IF ~IsContainer(current) THEN Thrown
  ELSE IF ~HasKey(current, parts[1]) THEN Returned(current)
  ELSE LET below == DeleteParts(Prop(current, parts[1]), Tail(parts))
       IN IF below.ok THEN Returned(PutProp(current, parts[1], below.val)) ELSE Thrown

\* An empty path deletes the property named "undefined", which no value here has.
deleteNestedProperty(obj, path) ==
  IF PathParts(path) = <<>> THEN Returned(obj)
  ELSE DeleteParts(obj, PathParts(path))

(***************************************************************************)
(* normalizeData, deepEqual, deepClone.                                    *)
(***************************************************************************)
\* normalizeData sorting the keys of the outermost object only.
normalizeDataTopLevel(data) ==
  IF data.t = "object"
    THEN LET keys == OwnKeys(SortStrings(ObjectKeys(data)))
         IN JObject([i \in DOMAIN keys |-> Entry(keys[i], Prop(data, keys[i]))])
  ELSE data

RECURSIVE normalizeData(_)
normalizeData(data) ==
  IF data.t = "array"
    THEN LET items == Elements(data)
         IN JArray([i \in DOMAIN items |->
                      Entry(items[i].k, normalizeData(items[i].val))])
  ELSE IF data.t = "object"
    THEN LET keys == OwnKeys(SortStrings(ObjectKeys(data)))
         IN JObject([i \in DOMAIN keys |->
                       Entry(keys[i], normalizeData(Prop(data, keys[i])))])
  ELSE data

RECURSIVE deepEqual(_, _)
deepEqual(a, b) ==
  IF ~IsContainer(a) /\ a = b THEN TRUE
  ELSE IF a.t \in {"null", "undefined"} \/ b.t \in {"null", "undefined"} THEN FALSE
  ELSE IF TypeOf(a) # TypeOf(b) THEN FALSE
  ELSE IF ~IsContainer(a) THEN FALSE
  ELSE IF a.t # b.t THEN FALSE
  ELSE IF a.t = "array"
    THEN /\ Len(Elements(a)) = Len(Elements(b))
         /\ \A i \in DOMAIN Elements(a) :
              deepEqual(Elements(a)[i].val, Elements(b)[i].val)
  ELSE /\ Len(a.e) = Len(b.e)
       /\ \A i \in DOMAIN a.e :
            /\ HasKey(b, a.e[i].k)
            /\ deepEqual(a.e[i].val, Prop(b, a.e[i].k))

RECURSIVE deepClone(_)
deepClone(obj) ==
  IF obj.t = "array"
    THEN LET items == Elements(obj)
         IN JArray([i \in DOMAIN items |-> Entry(items[i].k, deepClone(items[i].val))])
  ELSE IF obj.t = "object"
    THEN JObject([i \in DOMAIN obj.e |-> Entry(obj.e[i].k, deepClone(obj.e[i].val))])
  ELSE obj
(***************************************************************************)
(* processSnapshotConfig.  A SnapshotConfig is absent (given = FALSE) or   *)
(* carries the paths of `properties` and of `exclude`.                     *)
(*                                                                         *)
(* processed[prop] = value stores the object found in `data`, not a copy:  *)
(* a later property path that runs through it writes into `data` as well. *)
(* `source` is `data` as the call leaves it.                               *)
(***************************************************************************)
NoConfig == [given |-> FALSE, properties |-> <<>>, exclude |-> <<>>]
SnapshotConfig(properties, exclude) ==
  [given |-> TRUE, properties |-> properties, exclude |-> exclude]

Processed(val, source) == [ok |-> TRUE, val |-> val, source |-> source]
ProcessThrew(source) == [ok |-> FALSE, val |-> JUndefined, source |-> source]

IsStrictPrefix(q, parts) == Len(q) < Len(parts) /\ SubSeq(parts, 1, Len(q)) = q

\* The loop over config.properties: `shared` holds the paths at which
\* `processed` holds an object of `data` itself.
RECURSIVE ExtractProperties(_, _, _, _)
ExtractProperties(data, processed, shared, props) ==
  IF props = <<>> THEN Processed(processed, data)
  ELSE LET parts == PathParts(Head(props))
           value == GetParts(data, parts)
           set == setNestedProperty(processed, Head(props), value)
           through == \E q \in shared : IsStrictPrefix(q, parts)
       IN IF ~set.ok THEN ProcessThrew(data)
          ELSE ExtractProperties(
                 IF through THEN SetParts(data, parts, value).val ELSE data,
                 set.val,
                 IF IsContainer(value) /\ parts # <<>> THEN shared \cup {parts} ELSE shared,
                 Tail(props))

\* The loop over config.exclude, on the clone.
RECURSIVE ExcludeProperties(_, _)
ExcludeProperties(processed, props) ==
  IF props = <<>> THEN Returned(processed)
  ELSE LET deleted == deleteNestedProperty(processed, Head(props))
       IN IF deleted.ok THEN ExcludeProperties(deleted.val, Tail(props)) ELSE Thrown

\* processSnapshotConfig applying config.exclude before config.properties.
processSnapshotConfigExcludeFirst(data, config) ==
  IF ~IsContainer(data) THEN Processed(data, data)
  ELSE LET excluded == IF config.exclude # <<>>
                         THEN ExcludeProperties(deepClone(data), config.exclude)
                         ELSE Returned(data)
       IN IF ~excluded.ok THEN ProcessThrew(data)
          ELSE IF config.properties = <<>> THEN Processed(excluded.val, data)
          ELSE [ExtractProperties(excluded.val, JObject(<<>>), {}, config.properties)
                  EXCEPT !.source = data]

processSnapshotConfig(data, config) ==
  IF ~IsContainer(data) THEN Processed(data, data)
  ELSE LET extracted == IF config.properties # <<>>
                          THEN ExtractProperties(data, JObject(<<>>), {}, config.properties)
                          ELSE Processed(data, data)
       IN IF ~extracted.ok \/ config.exclude = <<>> THEN extracted
          ELSE LET excluded == ExcludeProperties(deepClone(extracted.val), config.exclude)
               IN IF excluded.ok THEN Processed(excluded.val, extracted.source)
                  ELSE ProcessThrew(extracted.source)

\* `config ? this.processSnapshotConfig(data, config) : data`
ProcessIfConfigured(data, config) ==
  IF config.given THEN processSnapshotConfig(data, config) ELSE Processed(data, data)

(***************************************************************************)
(* generateDiff.  A line is "- path: value" or "+ path: value".            *)
(***************************************************************************)
DiffLine(sign, path, val) == [sign |-> sign, path |-> path, val |-> val]

RECURSIVE generateDiffRecursive(_, _, _)
RECURSIVE DiffOfKeys(_, _, _, _)

\* The loop `for (const key of allKeys)`.
DiffOfKeys(expected, actual, path, keys) ==
  IF keys = <<>> THEN <<>>
  ELSE generateDiffRecursive(Prop(expected, Head(keys)), Prop(actual, Head(keys)),
                             IF path # <<>> THEN path \o <<".">> \o Head(keys)
                             ELSE Head(keys))
         \o DiffOfKeys(expected, actual, path, Tail(keys))

generateDiffRecursive(expected, actual, path) ==
  IF deepEqual(expected, actual) THEN <<>>
  ELSE IF expected.t = "undefined" /\ actual.t # "undefined"
    THEN <<DiffLine("+", path, actual)>>
  ELSE IF expected.t # "undefined" /\ actual.t = "undefined"
    THEN <<DiffLine("-", path, expected)>>
  ELSE IF TypeOf(expected) # TypeOf(actual)
    THEN <<DiffLine("-", path, expected), DiffLine("+", path, actual)>>
  ELSE IF IsContainer(expected) /\ actual.t # "null"
    THEN DiffOfKeys(expected, actual, path,
                    FirstOccurrences(ObjectKeys(expected) \o ObjectKeys(actual)))
  ELSE IF expected # actual
    THEN <<DiffLine("-", path, expected), DiffLine("+", path, actual)>>
  ELSE <<>>

generateDiff(expected, actual) == generateDiffRecursive(expected, actual, <<>>)

(***************************************************************************)
(* Snapshots in memory and in the directory.  The directory holds what     *)
(* JSON.parse reads back from the file JSON.stringify wrote: a property    *)
(* whose value is undefined is left out, an undefined array element is     *)
(* null.  The directory is taken to be writable and readable.              *)
(***************************************************************************)
RECURSIVE JsonValue(_)
JsonValue(val) ==
  IF val.t = "array"
    THEN LET items == Elements(val)
         IN JArray([i \in DOMAIN items |->
                      Entry(items[i].k, IF items[i].val.t = "undefined" THEN JNull
                                        ELSE JsonValue(items[i].val))])
  ELSE IF val.t = "object"
    THEN LET kept == FilterSeq(val.e, {i \in DOMAIN val.e : val.e[i].val.t # "undefined"})
         IN JObject([i \in DOMAIN kept |-> Entry(kept[i].k, JsonValue(kept[i].val))])
  ELSE val

\* No snapshot of that name.
NoSnapshot == [exists |-> FALSE, timestamp |-> 0, data |-> JUndefined]

Snapshot(timestamp, data) == [exists |-> TRUE, timestamp |-> timestamp, data |-> data]

\* JSON.parse of the file that saveSnapshot wrote.
SnapshotFile(snapshot) == [snapshot EXCEPT !.data = JsonValue(snapshot.data)]
(***************************************************************************)
(* The values, configurations and names the stores are called with.        *)
(***************************************************************************)
Obj1(k1, v1) == JObject(<<Entry(<<k1>>, v1)>>)
Obj2(k1, v1, k2, v2) == JObject(<<Entry(<<k1>>, v1), Entry(<<k2>>, v2)>>)

\* {a: 1} and {a: 2}
DataA1 == Obj1("a", JNum(1))
DataA2 == Obj1("a", JNum(2))
\* {a: []} and {a: {}}
DataAList == Obj1("a", JList(<<>>))
DataAObject == Obj1("a", JObject(<<>>))
\* {a: null}
DataANull == Obj1("a", JNull)
\* {a: {c: 1}}
DataAC == Obj1("a", Obj1("c", JNum(1)))
\* {a: {x: 1, y: 2}, b: [{x: 1, y: 2}]} and the same with the keys the other way round
DataKeys == Obj2("a", Obj2("x", JNum(1), "y", JNum(2)),
                 "b", JList(<<Obj2("x", JNum(1), "y", JNum(2))>>))
DataKeysReordered == Obj2("b", JList(<<Obj2("y", JNum(2), "x", JNum(1))>>),
                          "a", Obj2("y", JNum(2), "x", JNum(1)))
\* {x: {y: {z: 1, w: 2}, b: 3}, a: 1}
DataXYZ == Obj2("x", Obj2("y", Obj2("z", JNum(1), "w", JNum(2)), "b", JNum(3)),
                "a", JNum(1))
\* {a: 5, x: {b: 4, y: {w: 2, z: 9}}}: DataXYZ but for x.y.z and what is outside x.y
DataXYZOther == Obj2("a", JNum(5),
                     "x", Obj2("b", JNum(4), "y", Obj2("w", JNum(2), "z", JNum(9))))
\* {x: {y: {z: 1, w: 7}}}: DataXYZ but for x.y.w
DataXYW == Obj1("x", Obj1("y", Obj2("z", JNum(1), "w", JNum(7))))

PathXY == <<"x", ".", "y">>
PathXYZ == <<"x", ".", "y", ".", "z">>
PathA == <<"a">>
PathAB == <<"a", ".", "b">>
PathABC == <<"a", ".", "b", ".", "c">>

\* {properties: ['x.y'], exclude: ['x.y.z']}
ConfigXY == SnapshotConfig(<<PathXY>>, <<PathXYZ>>)
\* {properties: ['x.y.z'], exclude: ['x.y']}
ConfigZY == SnapshotConfig(<<PathXYZ>>, <<PathXY>>)
\* {properties: ['a', 'a.b']}
ConfigAB == SnapshotConfig(<<PathA, PathAB>>, <<>>)

\* {exclude: ['a.b']} and {exclude: ['a.b.c']}
ConfigNoAB == SnapshotConfig(<<>>, <<PathAB>>)
ConfigNoABC == SnapshotConfig(<<>>, <<PathABC>>)

Call(data, config) == [data |-> data, config |-> config]

\* The data and the configuration of the calls of compareSnapshot.
SnapshotCalls ==
  {Call(d, NoConfig) : d \in {DataA1, DataA2, DataAList, DataAObject, DataAC,
                              DataKeys, DataKeysReordered}}
    \cup {Call(d, ConfigXY) : d \in {DataXYZ, DataXYZOther, DataXYW, DataA1}}
    \cup {Call(d, ConfigZY) : d \in {DataXYZ}}
    \cup {Call(d, ConfigAB) : d \in {DataAC}}
    \cup {Call(d, ConfigNoAB) : d \in {DataA1, DataANull, DataAC}}
    \cup {Call(d, ConfigNoABC) : d \in {DataA1}}

SnapshotNames == {"addition-5-3"}

\* The two SnapshotManager instances over the one directory.
StoreIds == {"updating", "comparing"}

(***************************************************************************)
(* The operations of a store.                                              *)
(***************************************************************************)
NoDiff == [kind |-> "none", lines |-> <<>>]
\* `Snapshot "<name>" does not exist. Run with UPDATE_SNAPSHOTS=true to create it.`
MissingDiff == [kind |-> "missing", lines |-> <<>>]
LinesDiff(lines) == [kind |-> "lines", lines |-> lines]

\* What compareSnapshot resolves with, or that it rejected.
Compared(match, diff) == [threw |-> FALSE, match |-> match, diff |-> diff]
CompareThrew == [threw |-> TRUE, match |-> FALSE, diff |-> NoDiff]

\* captureSnapshot in a store whose updateSnapshots is set: the snapshot it
\* saves and keeps.
captureSnapshot(data, now) == Snapshot(now, normalizeData(data))

\* What a call of compareSnapshot leaves: its result, this.snapshots and the
\* file of the name.
Outcome(result, snapshots, file) ==
  [result |-> result, snapshots |-> snapshots, file |-> file]

\* The call returns after captureSnapshot wrote the snapshot of `data`.
Captured(snapshots, name, snapshot) ==
  Outcome(Compared(TRUE, NoDiff), [snapshots EXCEPT ![name] = snapshot],
          SnapshotFile(snapshot))

\* compareSnapshot from `const match = ...` on; processSnapshotConfig has left
\* the data of the existing snapshot as `processedExisting.source`.
CompareWithExisting(snapshots, file, updateSnapshots, name, now, processedData, processedExisting) ==
  IF ~processedExisting.ok
    THEN Outcome(CompareThrew,
                 [snapshots EXCEPT ![name].data = processedExisting.source], file)
  ELSE IF deepEqual(processedData, processedExisting.val)
    THEN Outcome(Compared(TRUE, NoDiff),
                 [snapshots EXCEPT ![name].data = processedExisting.source], file)
  ELSE IF updateSnapshots
    THEN Captured(snapshots, name, captureSnapshot(processedData, now))
  ELSE Outcome(Compared(FALSE, LinesDiff(generateDiff(processedExisting.val,
                                                      processedData))),
               [snapshots EXCEPT ![name].data = processedExisting.source], file)

\* compareSnapshot from `const existingSnapshot = ...` on.
CompareProcessed(snapshots, file, updateSnapshots, name, config, now, processedData) ==
  IF ~processedData.ok THEN Outcome(CompareThrew, snapshots, file)
  ELSE IF ~snapshots[name].exists
    THEN IF updateSnapshots
           THEN Captured(snapshots, name, captureSnapshot(processedData.val, now))
           ELSE Outcome(Compared(FALSE, MissingDiff), snapshots, file)
  ELSE CompareWithExisting(snapshots, file, updateSnapshots, name, now,
                           processedData.val,
                           ProcessIfConfigured(snapshots[name].data, config))

\* compareSnapshot on the store's map `snapshots`: what it returns, the map and
\* the file of `name` afterwards.
compareSnapshot(snapshots, file, updateSnapshots, name, actualData, config, now) ==
  CompareProcessed(snapshots, file, updateSnapshots, name, config, now,
                   ProcessIfConfigured(normalizeData(actualData), config))

\* The latest call: nothing yet, or the opening of a store.
NoCompare(op, store) == [op |-> op, store |-> store]

\* No run of MCPTestRunner is going on.
RunnerParked ==
  /\ testConfig = [filter |-> NoPattern, skip |-> NoPattern,
                   tools |-> [form |-> "array", entries |-> <<>>],
                   resources |-> [form |-> "array", entries |-> <<>>],
                   prompts |-> [form |-> "array", entries |-> <<>>]]
  /\ pc = "idle"
  /\ cursor = 0
  /\ capabilities = [tools |-> <<>>, resources |-> <<>>, prompts |-> <<>>]
  /\ results = <<>>
  /\ calls = <<>>
  /\ pending = {}
  /\ env = [connect |-> "none", ping |-> "none", tools |-> NoListing,
            resources |-> NoListing, prompts |-> NoListing, disconnect |-> "none"]
  /\ replies = <<>>
  /\ returned = "none"
  /\ suite = createTestSuite(<<>>)

SnapshotInit ==
  /\ RunnerParked
  /\ EvalParked
  /\ RestParked
  /\ disk = [n \in SnapshotNames |-> NoSnapshot]
  /\ saves = [n \in SnapshotNames |-> 0]
  /\ stores = [s \in StoreIds |->
                 [open |-> FALSE, updateSnapshots |-> (s = "updating"),
                  snapshots |-> [n \in SnapshotNames |-> NoSnapshot]]]
  /\ clock = 1
  /\ last = NoCompare("none", "none")

\* new SnapshotManager(baseDir, updateSnapshots) and init(): loadSnapshots reads
\* every .snap.json file of the directory into this.snapshots.
OpenStore ==
  \E s \in StoreIds :
    /\ stores' = [stores EXCEPT ![s].open = TRUE, ![s].snapshots = disk]
    /\ last' = NoCompare("init", s)
    /\ UNCHANGED <<disk, saves, clock>>
    /\ UNCHANGED <<vars, evaluated, restVars>>

\* The call of store s has settled as `out`.
Settled(s, name, call, out) ==
  /\ stores' = [stores EXCEPT ![s].snapshots = out.snapshots]
  /\ disk' = [disk EXCEPT ![name] = out.file]
  /\ saves' = [saves EXCEPT ![name] = IF out.file # disk[name] THEN @ + 1 ELSE @]
  /\ last' = [op |-> "compare", store |-> s, name |-> name,
              data |-> call.data, config |-> call.config,
              result |-> out.result, before |-> stores[s].snapshots[name],
              fileBefore |-> disk[name]]

\* One call of compareSnapshot on an initialised store.
CompareSnapshot ==
  \E s \in StoreIds, name \in SnapshotNames, call \in SnapshotCalls :
    /\ stores[s].open
    /\ clock <= MaxClock
    /\ Settled(s, name, call,
               compareSnapshot(stores[s].snapshots, disk[name],
                               stores[s].updateSnapshots, name, call.data,
                               call.config, clock))
    /\ clock' = clock + 1
    /\ UNCHANGED <<vars, evaluated, restVars>>

\* The data of the direct calls of captureSnapshot.
CaptureData == {DataA2, DataAC}

\* captureSnapshot resolves with nothing.
Void == [threw |-> FALSE]

\* One direct call of captureSnapshot on an initialised store: the snapshot is
\* built in every mode, saved and kept only `if (this.updateSnapshots)`.
CaptureSnapshot ==
  \E s \in StoreIds, name \in SnapshotNames, data \in CaptureData :
    /\ stores[s].open
    /\ clock <= MaxClock
    /\ LET snapshot == captureSnapshot(data, clock)
           file == IF stores[s].updateSnapshots THEN SnapshotFile(snapshot)
                   ELSE disk[name]
       IN /\ stores' = [stores EXCEPT ![s].snapshots[name] =
                          IF stores[s].updateSnapshots THEN snapshot ELSE @]
          /\ disk' = [disk EXCEPT ![name] = file]
          /\ saves' = [saves EXCEPT ![name] = IF file # disk[name] THEN @ + 1 ELSE @]
    /\ last' = [op |-> "capture", store |-> s, name |-> name,
                data |-> data, config |-> NoConfig, result |-> Void,
                before |-> stores[s].snapshots[name], fileBefore |-> disk[name]]
    /\ clock' = clock + 1
    /\ UNCHANGED <<vars, evaluated, restVars>>

SnapshotNext == OpenStore \/ CompareSnapshot \/ CaptureSnapshot

SnapshotSpec == SnapshotInit /\ [][SnapshotNext]_<<vars, storeVars>>

(***************************************************************************)
(* The latest call of compareSnapshot, read back.                          *)
(***************************************************************************)
IsCompare == last.op = "compare"

\* The store the latest call was made on, and its snapshot of the name now.
LastStore == stores[last.store]
StoredNow == stores[last.store].snapshots[last.name]

\* The normalized and projected form of the data of a call.
ProcessedData(call) == ProcessIfConfigured(normalizeData(call.data), call.config)

(***************************************************************************)
(* C12: in non-update mode, comparing a name against data equal (after     *)
(* normalization) to the stored snapshot returns match = true every time   *)
(* and leaves the stored snapshot, in memory and on disk, timestamp        *)
(* included, unchanged.                                                    *)
(***************************************************************************)
C12_EqualDataLeavesSnapshot ==
  (/\ IsCompare
   /\ ~LastStore.updateSnapshots
   /\ last.before.exists
   /\ deepEqual(normalizeData(last.data), last.before.data)) =>
    /\ ~last.result.threw
    /\ last.result.match
    /\ StoredNow = last.before
    /\ disk[last.name] = last.fileBefore

\* The values a and b differ at most in the order of the keys of objects.
RECURSIVE SameUpToKeyOrder(_, _)
SameUpToKeyOrder(a, b) ==
  IF a.t # b.t THEN FALSE
  ELSE IF a.t = "array"
    THEN /\ Len(a.e) = Len(b.e)
         /\ \A i \in DOMAIN a.e :
              a.e[i].k = b.e[i].k /\ SameUpToKeyOrder(a.e[i].val, b.e[i].val)
  ELSE IF a.t = "object"
    THEN /\ Len(a.e) = Len(b.e)
         /\ \A i \in DOMAIN a.e :
              \E j \in DOMAIN b.e :
                a.e[i].k = b.e[j].k /\ SameUpToKeyOrder(a.e[i].val, b.e[j].val)
  ELSE a = b

\* The data of the snapshot that a capturing call of compareSnapshot keeps.
CapturedData(call) == normalizeData(ProcessedData(call).val)

\* The latest call compared against a snapshot captured from the call c, as
\* kept in memory or as read back from its file.
ComparedWithCaptureOf(c) ==
  /\ ProcessedData(c).ok
  /\ last.before.exists
  /\ last.before.data \in {CapturedData(c), JsonValue(CapturedData(c))}

(***************************************************************************)
(* C13: snapshot comparison is independent of the order of object keys at  *)
(* every nesting depth: two values that differ only in the order of object *)
(* keys normalize to identical structures, and comparing one against a     *)
(* snapshot captured from the other reports a match.                       *)
(***************************************************************************)
C13_KeyOrderIndependent ==
  IsCompare =>
    \A c \in SnapshotCalls :
      (/\ c.config = last.config
       /\ SameUpToKeyOrder(c.data, last.data)
       /\ ComparedWithCaptureOf(c)) =>
        /\ normalizeData(c.data) = normalizeData(last.data)
        /\ ~last.result.threw
        /\ last.result.match

\* {b: [{y, x}], a: {y, x}} was compared with the snapshot read back from the
\* file captured from {a: {x, y}, b: [{x, y}]}.
C13_Witness ==
  /\ IsCompare
  /\ last.store = "comparing"
  /\ last.data = DataKeysReordered
  /\ last.config = NoConfig
  /\ last.before.exists
  /\ last.before.data = JsonValue(CapturedData(Call(DataKeys, NoConfig)))
  /\ DataKeysReordered # DataKeys
  /\ last.result.match

KeyX == <<"x">>
KeyY == <<"y">>
KeyZ == <<"z">>

\* The latest call captured a snapshot in the store it was made on.
CapturedNow ==
  /\ IsCompare
  /\ ~last.result.threw
  /\ StoredNow.exists
  /\ StoredNow.timestamp = clock - 1

(***************************************************************************)
(* C14: projection applies the properties allow-list first and the exclude *)
(* list second: with properties ["x.y"] and exclude ["x.y.z"], the         *)
(* projected structure that a capture keeps contains x.y with all of the   *)
(* sub-keys of the data's x.y except z, and nothing outside x.y.  With the  *)
(* two lists exchanged, properties ["x.y.z"] and exclude ["x.y"], the      *)
(* exclusion removes what the allow-list selected: x is left empty.        *)
(***************************************************************************)
C14_ExcludeAfterProperties ==
  (CapturedNow /\ GetParts(last.data, <<KeyX, KeyY>>).t = "object") =>
    /\ last.config = ConfigXY =>
         LET given == GetParts(normalizeData(last.data), <<KeyX, KeyY>>)
             kept == GetParts(StoredNow.data, <<KeyX, KeyY>>)
         IN /\ ObjectKeys(StoredNow.data) = <<KeyX>>
            /\ ObjectKeys(Prop(StoredNow.data, KeyX)) = <<KeyY>>
            /\ kept.t = "object"
            /\ Range(ObjectKeys(kept)) = Range(ObjectKeys(given)) \ {KeyZ}
            /\ \A k \in Range(ObjectKeys(kept)) : Prop(kept, k) = Prop(given, k)
    /\ last.config = ConfigZY =>
         StoredNow.data = JObject(<<Entry(KeyX, JObject(<<>>))>>)

\* A capture with that configuration of data that has x.y.z, other keys in x.y
\* and keys outside x.y.
C14_Witness ==
  /\ CapturedNow
  /\ last.config = ConfigXY
  /\ HasKey(GetParts(last.data, <<KeyX, KeyY>>), KeyZ)
  /\ Len(ObjectKeys(GetParts(last.data, <<KeyX, KeyY>>))) > 1
  /\ Len(ObjectKeys(last.data)) > 1
  /\ Len(ObjectKeys(Prop(last.data, KeyX))) > 1


\* The call the latest compareSnapshot was made with.
LastCall == Call(last.data, last.config)

\* The diff has a line whose path is a place where the two values differ.
NamesDifferingPath(diff, expected, actual) ==
  /\ diff.kind = "lines"
  /\ \E i \in DOMAIN diff.lines :
       ~deepEqual(GetParts(expected, PathParts(diff.lines[i].path)),
                  GetParts(actual, PathParts(diff.lines[i].path)))

(***************************************************************************)
(* C15: once a comparison in update mode has created the snapshot of a     *)
(* name, a comparison in non-update mode, by a store initialised           *)
(* afterwards over the same directory, reports match for the same data,    *)
(* and for data that differs (after normalization and projection) reports  *)
(* match = false with a diff that names a path at which the data differs.  *)
(***************************************************************************)
C15_CreatedThenCompared ==
  (IsCompare /\ ~LastStore.updateSnapshots /\ ProcessedData(LastCall).ok) =>
    \A c \in SnapshotCalls :
      (c.config = last.config /\ ComparedWithCaptureOf(c)) =>
        /\ ~last.result.threw
        /\ IF deepEqual(ProcessedData(LastCall).val, ProcessedData(c).val)
             THEN last.result.match
             ELSE /\ ~last.result.match
                  /\ NamesDifferingPath(last.result.diff, ProcessedData(c).val,
                                        ProcessedData(LastCall).val)


(***************************************************************************)
(* C16: when the store has no snapshot of the name and update mode is off, *)
(* compareSnapshot returns match = false with the message that the         *)
(* snapshot does not exist, and creates no snapshot, neither in memory nor *)
(* on disk.                                                                *)
(***************************************************************************)
C16_MissingSnapshotReported ==
  (IsCompare /\ ~LastStore.updateSnapshots /\ ~last.before.exists) =>
    /\ ~last.result.threw
    /\ ~last.result.match
    /\ last.result.diff = MissingDiff
    /\ ~StoredNow.exists
    /\ disk[last.name] = last.fileBefore


\* The new data of the latest call, projected, differs from the snapshot the
\* store held, projected alike (a snapshot without the projected paths differs).
DiffersFromStored ==
  /\ last.before.exists
  /\ ProcessedData(LastCall).ok
  /\ LET existing == ProcessIfConfigured(last.before.data, last.config)
     IN ~existing.ok \/ ~deepEqual(ProcessedData(LastCall).val, existing.val)

(***************************************************************************)
(* C17: when the store holds a snapshot of the name, the compared data     *)
(* differs from it and update mode is on, compareSnapshot overwrites the   *)
(* stored snapshot, in memory and on disk, with the normalized and         *)
(* projected new data and returns match = true; and a later comparison of  *)
(* that same data against the snapshot so written matches, in update and   *)
(* in non-update mode.                                                     *)
(***************************************************************************)
C17_UpdateOverwrites ==
  IsCompare =>
    /\ (LastStore.updateSnapshots /\ DiffersFromStored) =>
         /\ ~last.result.threw
         /\ last.result.match
         /\ StoredNow = Snapshot(clock - 1, CapturedData(LastCall))
         /\ disk[last.name] = SnapshotFile(StoredNow)
    /\ ComparedWithCaptureOf(LastCall) =>
         ~last.result.threw /\ last.result.match


(***************************************************************************)
(* A tool test that carries a snapshot directive.  The runner's own code   *)
(* for it is not in the sources; it is taken from the specification's      *)
(* "Invoke and judge" and from the suite 'Snapshot Mismatch Detection':    *)
(* the store's comparison decides, and a rejection of the call or of the   *)
(* comparison is caught by testTool as any other error of the test.        *)
(***************************************************************************)
\* A TestResult of a snapshot test: the diff is part of the message.
SnapshotResult(name, status, msg, diff) ==
  [check |-> "execution", cls |-> "tool", item |-> name, type |-> "tool",
   status |-> status, msg |-> msg, avail |-> <<>>, hasError |-> FALSE,
   diff |-> diff]

\* testTool passing whatever the store reports.
testToolSnapshotAlwaysPass(name, ok, compared) ==
  IF ~ok \/ compared.threw
    THEN WithError(SnapshotResult(name, "fail", "execution_failed", NoDiff))
    ELSE SnapshotResult(name, "pass", "snapshot_matched", NoDiff)

\* testTool for a config with a snapshot directive and no shouldThrow: `ok`
\* tells whether callTool returned, `compared` is what compareSnapshot gave.
testToolSnapshot(name, ok, compared) ==
  IF ~ok \/ compared.threw
    THEN WithError(SnapshotResult(name, "fail", "execution_failed", NoDiff))
  ELSE IF compared.match
    THEN SnapshotResult(name, "pass", "snapshot_matched", NoDiff)
  ELSE SnapshotResult(name, "fail", "snapshot_mismatch", compared.diff)

\* The tool under test.
ToolNameAdd == <<"a", "d", "d">>

\* A run of mcpTest begins: the runner makes its store, in the mode of the
\* environment, and initialises it.
RunWithStore ==
  \E s \in StoreIds :
    /\ stores' = [stores EXCEPT ![s].open = TRUE, ![s].snapshots = disk]
    /\ results' = <<>>
    /\ last' = NoCompare("init", s)
    /\ UNCHANGED <<disk, saves, clock>>
    /\ UNCHANGED <<testConfig, pc, cursor, capabilities, calls, pending, env,
                   replies, returned, suite, evaluated, restVars>>

\* The comparison of the tool's result has settled as `out`; testTool adds
\* its result.
ToolSettled(s, name, call, out) ==
  /\ Settled(s, name, call, out)
  /\ results' = Append(results, testToolSnapshot(ToolNameAdd, TRUE, out.result))

\* testTool of the running runner: callTool returns the data of `call`, which
\* is compared under the directive's name and config, or callTool throws.
TestToolSnapshot ==
  \E name \in SnapshotNames, call \in SnapshotCalls, ok \in BOOLEAN :
    /\ last.op \in {"init", "compare", "threw"}
    /\ clock <= MaxClock
    /\ IF ok
         THEN ToolSettled(last.store, name, call,
                          compareSnapshot(stores[last.store].snapshots, disk[name],
                                          stores[last.store].updateSnapshots, name,
                                          call.data, call.config, clock))
         ELSE /\ results' = Append(results,
                                   testToolSnapshot(ToolNameAdd, FALSE, CompareThrew))
              /\ last' = NoCompare("threw", last.store)
              /\ UNCHANGED <<stores, disk, saves>>
    /\ clock' = clock + 1
    /\ UNCHANGED <<testConfig, pc, cursor, capabilities, calls, pending, env,
                   replies, returned, suite, evaluated, restVars>>

ToolSnapshotNext == RunWithStore \/ TestToolSnapshot

ToolSnapshotSpec == SnapshotInit /\ [][ToolSnapshotNext]_<<vars, storeVars>>

\* The result testTool added last.
LastResult == results[Len(results)]

JStr(s) == [t |-> "string", v |-> s, e |-> <<>>]
JBool(b) == [t |-> "boolean", v |-> b, e |-> <<>>]

WhiteSpace == {" "}

\* s.includes(sub)
Includes(s, sub) ==
  \E i \in 0..(Len(s) - Len(sub)) : SubSeq(s, i + 1, i + Len(sub)) = sub

\* s.startsWith(sub), s.endsWith(sub)
StartsWith(s, sub) == Len(s) >= Len(sub) /\ SubSeq(s, 1, Len(sub)) = sub
EndsWith(s, sub) ==
  Len(s) >= Len(sub) /\ SubSeq(s, Len(s) - Len(sub) + 1, Len(s)) = sub

\* s.trim()
Trim(s) ==
  LET inked == {i \in DOMAIN s : s[i] \notin WhiteSpace}
  IN IF inked = {} THEN <<>>
     ELSE SubSeq(s, CHOOSE a \in inked : \A i \in inked : a <= i,
                    CHOOSE b \in inked : \A i \in inked : i <= b)

\* s.split(sep) for a separator that is not empty.
RECURSIVE Split(_, _)
Split(s, sep) ==
  IF ~Includes(s, sep) THEN <<s>>
  ELSE LET at == {i \in 1..(Len(s) - Len(sep) + 1) :
                    SubSeq(s, i, i + Len(sep) - 1) = sep}
           i == CHOOSE a \in at : \A o \in at : a <= o
       IN <<SubSeq(s, 1, i - 1)>> \o Split(SubSeq(s, i + Len(sep), Len(s)), sep)

\* The first position from i on that holds no blank (Len(s) + 1 when none).
RECURSIVE SkipSpace(_, _)
SkipSpace(s, i) ==
  IF i > Len(s) \/ s[i] \notin WhiteSpace THEN i ELSE SkipSpace(s, i + 1)

\* The end of the longest run of characters of S that starts at i (i - 1
\* when s[i] is not in S).
RECURSIVE RunEnd(_, _, _)
RunEnd(s, i, S) ==
  IF i > Len(s) \/ s[i] \notin S THEN i - 1 ELSE RunEnd(s, i + 1, S)

\* The alternatives (===|==|!==|!=|>=|<=|>|<), in the order the regular
\* expression tries them.
ComparisonOperators ==
  <<<<"=", "=", "=">>, <<"=", "=">>, <<"!", "=", "=">>, <<"!", "=">>, <<">", "=">>, <<"<", "=">>, <<">">>, <<"<">>>>

\* The operator alternative k matches at position j and leaves at least one
\* character for the group (.+) behind it.
OperatorFits(s, j, k) ==
  /\ j + Len(ComparisonOperators[k]) <= Len(s)
  /\ SubSeq(s, j, j + Len(ComparisonOperators[k]) - 1) = ComparisonOperators[k]

NoMatch ==
  [matched |-> FALSE, propertyPath |-> <<>>, operator |-> <<>>,
   expectedValueStr |-> <<>>]

\* The match that begins with a property path of n characters.
MatchOfLength(s, n) ==
  LET j == SkipSpace(s, n + 1)
      k == CHOOSE a \in DOMAIN ComparisonOperators :
             /\ OperatorFits(s, j, a)
             /\ \A o \in 1..(a - 1) : ~OperatorFits(s, j, o)
  IN [matched |-> TRUE, propertyPath |-> SubSeq(s, 1, n),
      operator |-> ComparisonOperators[k],
      expectedValueStr |-> SubSeq(s, j + Len(ComparisonOperators[k]), Len(s))]

\* expectation.match(/^(.+?)\s*(===|==|!==|!=|>=|<=|>|<)\s*(.+)$/): the lazy
\* first group takes the shortest prefix after which, blanks skipped, an
\* operator stands.  The third group is given with its leading blanks, which
\* the caller trims.
comparisonMatch(s) ==
  LET fits == {n \in 1..Len(s) :
                 \E k \in DOMAIN ComparisonOperators :
                   OperatorFits(s, SkipSpace(s, n + 1), k)}
  IN IF fits = {} THEN NoMatch
     ELSE MatchOfLength(s, CHOOSE n \in fits : \A o \in fits : n <= o)

\* The decimal digits of a natural number.
RECURSIVE ToDigits(_)
ToDigits(n) ==
  IF n < 10 THEN <<DigitChars[n + 1]>>
  ELSE Append(ToDigits(n \div 10), DigitChars[(n % 10) + 1])

KeyLength == <<"l", "e", "n", "g", "t", "h">>

\* current[key] for a current that is neither null nor undefined.  Arrays are
\* dense; the keys asked for name no method of a prototype.
Member(current, key) ==
  IF current.t = "array" /\ key = KeyLength THEN JNum(Len(Elements(current)))
  ELSE IF IsContainer(current) THEN Prop(current, key)
  ELSE IF current.t = "string"
    THEN IF key = KeyLength THEN JNum(Len(current.v))
         ELSE IF IsArrayIndex(key) /\ NumValue(key) < Len(current.v)
           THEN JStr(<<current.v[NumValue(key) + 1]>>)
         ELSE JUndefined
  ELSE JUndefined

NoIndex == [matched |-> FALSE, propName |-> <<>>, index |-> 0]

\* key.match(/^(.+?)\[(\d+)\]$/)
IndexedKey(key) ==
  LET opens == {i \in 2..(Len(key) - 2) :
                  /\ key[i] = "["
                  /\ key[Len(key)] = "]"
                  /\ \A d \in (i + 1)..(Len(key) - 1) : key[d] \in Digits}
  IN IF opens = {} THEN NoIndex
     ELSE LET i == CHOOSE a \in opens : TRUE
          IN [matched |-> TRUE, propName |-> SubSeq(key, 1, i - 1),
              index |-> NumValue(SubSeq(key, i + 1, Len(key) - 1))]

\* arrayValue[index], or undefined when arrayValue is no array.
ElementOf(arrayValue, index) ==
  IF arrayValue.t = "array" THEN Member(arrayValue, ToDigits(index)) ELSE JUndefined

\* One step of the reduce of getPropertyValue.
PropertyStep(current, key) ==
  IF current.t \in {"null", "undefined"} THEN JUndefined
  ELSE IF Includes(key, <<"[">>) /\ Includes(key, <<"]">>) /\ IndexedKey(key).matched
    THEN ElementOf(Member(current, IndexedKey(key).propName), IndexedKey(key).index)
  ELSE Member(current, key)

RECURSIVE ReduceKeys(_, _)
ReduceKeys(current, keys) ==
  IF keys = <<>> THEN current
  ELSE ReduceKeys(PropertyStep(current, Head(keys)), Tail(keys))

getPropertyValue(obj, path) ==
  IF ~IsContainer(obj) THEN JUndefined
  ELSE ReduceKeys(obj, Split(path, <<".">>))

\* /^\d+(\.\d+)?$/.test(str), for the literals without a fraction.
IsNumberLiteral(str) == str # <<>> /\ \A i \in DOMAIN str : str[i] \in Digits

parseExpectedValue(str) ==
  IF \/ StartsWith(str, <<"\"">>) /\ EndsWith(str, <<"\"">>)
     \/ StartsWith(str, <<"'">>) /\ EndsWith(str, <<"'">>)
    THEN JStr(SubSeq(str, 2, Len(str) - 1))
  ELSE IF IsNumberLiteral(str) THEN JNum(NumValue(str))
  ELSE IF str = <<"t", "r", "u", "e">> THEN JBool(TRUE)
  ELSE IF str = <<"f", "a", "l", "s", "e">> THEN JBool(FALSE)
  ELSE IF str = <<"n", "u", "l", "l">> THEN JNull
  ELSE IF str = <<"u", "n", "d", "e", "f", "i", "n", "e", "d">> THEN JUndefined
  ELSE JStr(str)

\* actual === expected, where expected is a parsed literal: an object or an
\* array is identical to no literal.
StrictEquals(actual, expected) ==
  /\ actual.t = expected.t
  /\ ~IsContainer(actual)
  /\ actual.t \in {"number", "string", "boolean"} => actual.v = expected.v

\* String(value).
RECURSIVE ToStringOf(_)
RECURSIVE JoinElements(_)
JoinElements(items) ==
  IF items = <<>> THEN <<>>
  ELSE (IF Head(items).val.t \in {"null", "undefined"} THEN <<>>
        ELSE ToStringOf(Head(items).val))
       \o (IF Len(items) > 1 THEN <<",">> \o JoinElements(Tail(items)) ELSE <<>>)

ToStringOf(val) ==
  CASE val.t = "string" -> val.v
    [] val.t = "number" -> ToDigits(val.v)
    [] val.t = "boolean" -> IF val.v THEN <<"t", "r", "u", "e">> ELSE <<"f", "a", "l", "s", "e">>
    [] val.t = "null" -> <<"n", "u", "l", "l">>
    [] val.t = "undefined" -> <<"u", "n", "d", "e", "f", "i", "n", "e", "d">>
    [] val.t = "array" -> JoinElements(Elements(val))
    [] val.t = "object" -> <<"[", "o", "b", "j", "e", "c", "t", " ", "O", "b", "j", "e", "c", "t", "]">>

\* Number(string) for strings of digits, letters and blanks: not a number
\* unless, trimmed, it is empty or all digits.
StringToNumber(s) ==
  IF Trim(s) = <<>> THEN [nan |-> FALSE, n |-> 0]
  ELSE IF IsNumberLiteral(Trim(s)) THEN [nan |-> FALSE, n |-> NumValue(Trim(s))]
  ELSE [nan |-> TRUE, n |-> 0]

\* actual == expected, where expected is a parsed literal.
RECURSIVE LooseEquals(_, _)
LooseEquals(actual, expected) ==
  IF actual.t = expected.t THEN StrictEquals(actual, expected)
  ELSE IF actual.t \in {"null", "undefined"} \/ expected.t \in {"null", "undefined"}
    THEN actual.t \in {"null", "undefined"} /\ expected.t \in {"null", "undefined"}
  ELSE IF actual.t = "boolean"
    THEN LooseEquals(JNum(IF actual.v THEN 1 ELSE 0), expected)
  ELSE IF expected.t = "boolean"
    THEN LooseEquals(actual, JNum(IF expected.v THEN 1 ELSE 0))
  ELSE IF IsContainer(actual) THEN LooseEquals(JStr(ToStringOf(actual)), expected)
  ELSE IF actual.t = "number"
    THEN ~StringToNumber(expected.v).nan /\ StringToNumber(expected.v).n = actual.v
  ELSE ~StringToNumber(actual.v).nan /\ StringToNumber(actual.v).n = expected.v

\* compareValues treating === as ==.
compareValuesLoosely(actual, operator, expected) ==
  LET numbers == actual.t = "number" /\ expected.t = "number"
  IN CASE operator \in {<<"=", "=", "=">>, <<"=", "=">>} -> LooseEquals(actual, expected)
       [] operator \in {<<"!", "=", "=">>, <<"!", "=">>} -> ~LooseEquals(actual, expected)
       [] operator = <<">">> -> numbers /\ actual.v > expected.v
       [] operator = <<">", "=">> -> numbers /\ actual.v >= expected.v
       [] operator = <<"<">> -> numbers /\ actual.v < expected.v
       [] operator = <<"<", "=">> -> numbers /\ actual.v <= expected.v
       [] OTHER -> FALSE

compareValues(actual, operator, expected) ==
  LET numbers == actual.t = "number" /\ expected.t = "number"
  IN CASE operator = <<"=", "=", "=">> -> StrictEquals(actual, expected)
       [] operator = <<"=", "=">> -> LooseEquals(actual, expected)
       [] operator = <<"!", "=", "=">> -> ~StrictEquals(actual, expected)
       [] operator = <<"!", "=">> -> ~LooseEquals(actual, expected)
       [] operator = <<">">> -> numbers /\ actual.v > expected.v
       [] operator = <<">", "=">> -> numbers /\ actual.v >= expected.v
       [] operator = <<"<">> -> numbers /\ actual.v < expected.v
       [] operator = <<"<", "=">> -> numbers /\ actual.v <= expected.v
       [] OTHER -> FALSE

\* Truthy with `value !== null` in the place of Boolean(value).
TruthyUnlessNull(val) == val.t # "null"

\* Boolean(value)
Truthy(val) ==
  CASE val.t \in {"undefined", "null"} -> FALSE
    [] val.t = "number" -> val.v # 0
    [] val.t = "string" -> val.v # <<>>
    [] val.t = "boolean" -> val.v
    [] OTHER -> TRUE

\* The comparison of evaluatePropertyExpectation, for the match m.
CompareMatched(value, m) ==
  compareValues(getPropertyValue(value, Trim(m.propertyPath)), m.operator,
                parseExpectedValue(Trim(m.expectedValueStr)))

\* expectation.split('&&').map(part => part.trim())
Conjuncts(expectation) ==
  LET parts == Split(expectation, <<"&", "&">>)
  IN [i \in DOMAIN parts |-> Trim(parts[i])]

\* part.includes('>') || part.includes('<') || part.includes('===')
IsComparisonPart(part) ==
  \/ Includes(part, <<">">>)
  \/ Includes(part, <<"<">>)
  \/ Includes(part, <<"=", "=", "=">>)

RECURSIVE evaluatePropertyExpectation(_, _)
evaluatePropertyExpectation(value, expectation) ==
  IF comparisonMatch(expectation).matched
    THEN CompareMatched(value, comparisonMatch(expectation))
  ELSE IF Includes(expectation, <<"&", "&">>)
    THEN \A i \in DOMAIN Conjuncts(expectation) :
           IF IsComparisonPart(Conjuncts(expectation)[i])
             THEN evaluatePropertyExpectation(value, Conjuncts(expectation)[i])
             ELSE Truthy(getPropertyValue(value, Conjuncts(expectation)[i]))
  ELSE Truthy(getPropertyValue(value, expectation))

\* The match of /keyword\s*([><=]+)\s*(\d+)/ that begins at position i.
KeywordMatchAt(s, keyword, i) ==
  LET j == SkipSpace(s, i + Len(keyword))
      r == RunEnd(s, j, {">", "<", "="})
      d == SkipSpace(s, r + 1)
      z == RunEnd(s, d, Digits)
  IN [matched |-> /\ i + Len(keyword) - 1 <= Len(s)
                  /\ SubSeq(s, i, i + Len(keyword) - 1) = keyword
                  /\ r >= j
                  /\ z >= d,
      operator |-> SubSeq(s, j, r),
      expected |-> NumValue(SubSeq(s, d, z))]

\* expectation.match(/keyword\s*([><=]+)\s*(\d+)/): the leftmost match.
KeywordMatch(s, keyword) ==
  LET at == {i \in DOMAIN s : KeywordMatchAt(s, keyword, i).matched}
  IN IF at = {} THEN [matched |-> FALSE, operator |-> <<>>, expected |-> 0]
     ELSE KeywordMatchAt(s, keyword, CHOOSE i \in at : \A o \in at : i <= o)

\* The operator of the length and count branches as the switch reads it.
SwitchOperator(operator) ==
  CASE operator = <<">">> -> ">"
    [] operator = <<">", "=">> -> ">="
    [] operator = <<"<">> -> "<"
    [] operator = <<"<", "=">> -> "<="
    [] operator = <<"=", "=">> -> "=="
    [] operator = <<"=", "=", "=">> -> "==="
    [] OTHER -> "default"

KeywordLength == <<"l", "e", "n", "g", "t", "h">>
KeywordCount == <<"c", "o", "u", "n", "t">>
KeywordContains == <<"c", "o", "n", "t", "a", "i", "n", "s", ":">>
KeywordExists == <<"e", "x", "i", "s", "t", "s">>

\* evaluateExpectation from `if (expectation.startsWith('contains:'))` on.
EvaluateContains(value, expectation) ==
  /\ StartsWith(expectation, KeywordContains)
  /\ value.t = "string"
  /\ Includes(value.v, SubSeq(expectation, Len(KeywordContains) + 1, Len(expectation)))

\* evaluateExpectation from `if (expectation.includes('count'))` on.
EvaluateCount(value, expectation) ==
  IF Includes(expectation, KeywordCount) /\ KeywordMatch(expectation, KeywordCount).matched
    THEN CompareCount(IF value.t = "array" THEN Len(Elements(value)) ELSE 0,
                      SwitchOperator(KeywordMatch(expectation, KeywordCount).operator),
                      KeywordMatch(expectation, KeywordCount).expected)
    ELSE EvaluateContains(value, expectation)

\* evaluateExpectation from `if (expectation.includes('length'))` on.
EvaluateLength(value, expectation) ==
  IF Includes(expectation, KeywordLength) /\ KeywordMatch(expectation, KeywordLength).matched
    THEN CompareCount(IF value.t = "array" THEN Len(Elements(value))
                      ELSE IF value.t = "string" THEN Len(value.v) ELSE 0,
                      SwitchOperator(KeywordMatch(expectation, KeywordLength).operator),
                      KeywordMatch(expectation, KeywordLength).expected)
    ELSE EvaluateCount(value, expectation)

evaluateExpectation(value, expectation) ==
  IF expectation = KeywordExists THEN value.t \notin {"null", "undefined"}
  ELSE IF Includes(expectation, <<".">>) \/ Includes(expectation, <<"[">>)
    THEN evaluatePropertyExpectation(value, expectation)
  ELSE EvaluateLength(value, expectation)

\* The results of tools and the expectations of tests the evaluator is run on.
KeyContent == <<"c", "o", "n", "t", "e", "n", "t">>
KeyText == <<"t", "e", "x", "t">>
KeyType == <<"t", "y", "p", "e">>

TextItem(text) == JObject(<<Entry(KeyText, text)>>)
ContentOf(items) == JObject(<<Entry(KeyContent, JList(items))>>)

\* {content: [{text: "8"}]}, {content: [{text: "9"}]}
ResultText8 == ContentOf(<<TextItem(JStr(<<"8">>))>>)
ResultText9 == ContentOf(<<TextItem(JStr(<<"9">>))>>)
\* {content: [{type: "text", text: "4"}]}
ResultTyped4 ==
  ContentOf(<<JObject(<<Entry(KeyType, JStr(KeyText)), Entry(KeyText, JStr(<<"4">>))>>)>>)
\* {content: [{text: 8}]}
ResultNumber8 == ContentOf(<<TextItem(JNum(8))>>)
\* {content: []}, {}
ResultEmptyContent == ContentOf(<<>>)
ResultNoContent == JObject(<<>>)
\* {content: [["8"]]}
ResultNested8 == ContentOf(<<JList(<<JStr(<<"8">>)>>)>>)
\* {text: "8"}
ResultBareText8 == TextItem(JStr(<<"8">>))
\* [{text: "8"}]
ResultList8 == JList(<<TextItem(JStr(<<"8">>))>>)

\* {isError: false, n: 3}
KeyIsError == <<"i", "s", "E", "r", "r", "o", "r">>
KeyN == <<"n">>
ResultFlags == JObject(<<Entry(KeyIsError, JBool(FALSE)), Entry(KeyN, JNum(3))>>)

EvalValues ==
  {ResultText8, ResultText9, ResultTyped4, ResultNumber8, ResultEmptyContent,
   ResultNoContent, ResultNested8, ResultBareText8, ResultList8, JStr(<<"8">>),
   JNull, ResultFlags}

\* "content[0].text === '8'"
ExpectText8 ==
  <<"c", "o", "n", "t", "e", "n", "t", "[", "0", "]", ".">>
    \o <<"t", "e", "x", "t", " ", "=", "=", "=", " ", "'", "8", "'">>

\* "content[0][0] === '8'"
ExpectNested8 ==
  <<"c", "o", "n", "t", "e", "n", "t", "[", "0", "]">>
    \o <<"[", "0", "]", " ", "=", "=", "=", " ", "'", "8", "'">>

\* "content[0].text !== '8'"
ExpectTextNot8 ==
  <<"c", "o", "n", "t", "e", "n", "t", "[", "0", "]", ".">>
    \o <<"t", "e", "x", "t", " ", "!", "=", "=", " ", "'", "8", "'">>

\* "content[0].text == 8"
ExpectTextLoosely8 ==
  <<"c", "o", "n", "t", "e", "n", "t", "[", "0", "]">>
    \o <<".", "t", "e", "x", "t", " ", "=", "=", " ", "8">>

\* "content[0].text === 8"
ExpectTextNumber8 ==
  <<"c", "o", "n", "t", "e", "n", "t", "[", "0", "]">>
    \o <<".", "t", "e", "x", "t", " ", "=", "=", "=", " ", "8">>

\* "content && content.length > 0"
ExpectContent ==
  <<"c", "o", "n", "t", "e", "n", "t", " ", "&", "&", " ", "c", "o", "n">>
    \o <<"t", "e", "n", "t", ".", "l", "e", "n", "g", "t", "h", " ", ">", " ", "0">>

\* "content.length > 0"
ExpectContentLength ==
  <<"c", "o", "n", "t", "e", "n", "t", ".", "l">>
    \o <<"e", "n", "g", "t", "h", " ", ">", " ", "0">>

\* "content[0] && content[0].text"
ExpectFirstText ==
  <<"c", "o", "n", "t", "e", "n", "t", "[", "0", "]", " ", "&", "&", " ">>
    \o <<"c", "o", "n", "t", "e", "n", "t", "[", "0", "]", ".", "t", "e", "x", "t">>

\* "text === '8'"
ExpectBareText8 ==
  <<"t", "e", "x", "t", " ", "=">>
    \o <<"=", "=", " ", "'", "8", "'">>

\* "length > 0"
ExpectLength ==
  <<"l", "e", "n", "g", "t", "h", " ", ">", " ", "0">>

\* "count >= 1"
ExpectCount ==
  <<"c", "o", "u", "n", "t", " ", ">", "=", " ", "1">>

\* "contains:8"
ExpectContains8 ==
  <<"c", "o", "n", "t", "a", "i", "n", "s", ":", "8">>

\* "isError === false", "n > 2", "n > 3"
ExpectNotError ==
  KeyIsError \o <<" ", "=", "=", "=", " ", "f", "a", "l", "s", "e">>
ExpectNAbove2 == <<"n", " ", ">", " ", "2">>
ExpectNAbove3 == <<"n", " ", ">", " ", "3">>

\* "content[0].text"
ExpectTextPath ==
  <<"c", "o", "n", "t", "e", "n", "t", "[", "0", "]", ".", "t", "e", "x", "t">>
\* "content[0].text === undefined", "content[0].text >= 0"
ExpectTextUndefined ==
  ExpectTextPath \o <<" ", "=", "=", "=", " ", "u", "n", "d", "e", "f", "i", "n", "e", "d">>
ExpectTextAtLeast0 == ExpectTextPath \o <<" ", ">", "=", " ", "0">>

Expectations ==
  {ExpectText8, ExpectNested8, ExpectTextNot8, ExpectTextLoosely8,
   ExpectTextNumber8, ExpectContent, ExpectContentLength, ExpectFirstText,
   ExpectBareText8, ExpectLength, ExpectCount, ExpectContains8,
   KeywordExists, ExpectNotError, ExpectNAbove2, ExpectNAbove3,
   ExpectTextPath, ExpectTextUndefined, ExpectTextAtLeast0}

\* An evaluation is asked for: a result and the expectation of its test.
EvalInit ==
  /\ RunnerParked
  /\ StoreParked
  /\ RestParked
  /\ evaluated \in [value : EvalValues, expectation : Expectations,
                    done : {FALSE}, verdict : {FALSE}]

\* evaluateExpectation returns.
Evaluate ==
  /\ ~evaluated.done
  /\ evaluated' = [evaluated EXCEPT
                     !.done = TRUE,
                     !.verdict = evaluateExpectation(evaluated.value,
                                                     evaluated.expectation)]
  /\ UNCHANGED <<vars, storeVars, restVars>>

EvalNext == Evaluate

EvalSpec == EvalInit /\ [][EvalNext]_<<vars, storeVars, evaluated>>


\* The evaluation has returned.
IsEvaluated == evaluated # <<>> /\ evaluated.done

Key0 == <<"0">>

C20_ConjunctsSplitFirst ==
  (IsEvaluated /\ evaluated.expectation \in {ExpectContent, ExpectFirstText}) =>
    /\ evaluated.verdict =
         \A i \in DOMAIN Conjuncts(evaluated.expectation) :
           evaluatePropertyExpectation(evaluated.value,
                                       Conjuncts(evaluated.expectation)[i])
    /\ evaluated.expectation = ExpectContent =>
         /\ evaluated.value \in {ResultText8, ResultTyped4} => evaluated.verdict
         /\ evaluated.value \in {ResultNoContent, ResultEmptyContent} =>
              ~evaluated.verdict

(***************************************************************************)
(* C21: for a resource pattern whose string expectation mentions count,    *)
(* the expectation is evaluated against the number N of advertised         *)
(* resources matching the pattern and no resource is read: with the        *)
(* expectation "count > k" the result is pass if and only if N > k.        *)
(***************************************************************************)
\* The configuration declared for a resource pattern (keys are distinct).
ResourceConfigOf(pattern) ==
  LET entries == EntriesToTest(testConfig.resources)
  IN entries[CHOOSE j \in DOMAIN entries : entries[j].name = pattern].cfg

C21_CountJudgedOnMatches ==
  \A i \in DOMAIN results :
    results[i].check = "count" =>
      LET pattern == results[i].item
          expect == ResourceConfigOf(pattern).expect
          N == Len(matchingResources(capabilities.resources, pattern))
      IN /\ results[i].status = "pass" <=> CompareCount(N, expect.op, expect.k)
         /\ \A c \in CallsOf({"readResource"}) :
              ~matchesPattern(calls[c].arg, pattern)

(***************************************************************************)
(* MCPProtocolValidator (validator.ts).                                    *)
(*                                                                         *)
(* validate() runs five phases against one client, records one             *)
(* ProtocolValidationResult per check and ends with generateReport().  A   *)
(* result is [name, category, passed]; the messages and spec references    *)
(* decide nothing and are left out.                                        *)
(***************************************************************************)
\* The longest list a server advertises for one capability class.
MaxListed == 1

ValidationResult(name, category, passed) ==
  [name |-> name, category |-> category, passed |-> passed]

\* serverConfig.transport: the three the validator knows, and any other.
Transports == {"stdio", "streamable-http", "sse", "other"}

\* What client.getCapabilities() resolves to: per class the advertised
\* items, each with or without a non-empty name (uri) and an inputSchema.
Advertised(withSchema) ==
  SeqsUpTo([named : BOOLEAN, schema : withSchema], MaxListed)

ValidatorCapabilities ==
  [tools : Advertised(BOOLEAN), resources : Advertised({FALSE}),
   prompts : Advertised({FALSE})]

NoCapabilities == [tools |-> <<>>, resources |-> <<>>, prompts |-> <<>>]

AllNamed(list) == \A i \in DOMAIN list : list[i].named

\* The results validateCapabilities adds when getCapabilities resolves.
CapabilityResults(caps) ==
  <<ValidationResult("Tools Discovery", "required", AllNamed(caps.tools)),
    ValidationResult("Tool Input Schemas", "recommended",
                     \A i \in DOMAIN caps.tools : caps.tools[i].schema),
    ValidationResult("Resources Discovery", "required", AllNamed(caps.resources)),
    ValidationResult("Prompts Discovery", "required", AllNamed(caps.prompts))>>

\* The result validateTransport adds.
TransportResults(transport) ==
  CASE transport = "stdio" -> <<ValidationResult("STDIO Transport", "required", TRUE)>>
    [] transport = "streamable-http" ->
         <<ValidationResult("HTTP Streaming Transport", "required", TRUE)>>
    [] transport = "sse" -> <<ValidationResult("SSE Transport", "required", TRUE)>>
    [] OTHER -> <<>>

\* The client calls of validateProtocolMethods and validateErrorHandling.
MethodCalls(caps) ==
  (IF caps.tools # <<>> THEN <<"callTool">> ELSE <<>>)
    \o (IF caps.resources # <<>> THEN <<"readResource">> ELSE <<>>)
    \o (IF caps.prompts # <<>> THEN <<"getPrompt">> ELSE <<>>)
    \o <<"unknownTool", "invalidResource">>

\* summary[category] of generateReport.
CategorySummary(rs, category) ==
  LET passed == Cardinality({i \in DOMAIN rs : rs[i].category = category /\ rs[i].passed})
      failed == Cardinality({i \in DOMAIN rs : rs[i].category = category /\ ~rs[i].passed})
  IN [passed |-> passed, failed |-> failed, total |-> passed + failed]

\* Math.round(70 * rp/rt + 20 * cp/ct + 10 * op/ot), a category without
\* results counting as fully passed.
ComplianceScore(required, recommended, optional) ==
  LET Num(s) == IF s.total > 0 THEN s.passed ELSE 1
      Den(s) == IF s.total > 0 THEN s.total ELSE 1
      den == Den(required) * Den(recommended) * Den(optional)
      num == 70 * Num(required) * Den(recommended) * Den(optional)
               + 20 * Num(recommended) * Den(required) * Den(optional)
               + 10 * Num(optional) * Den(required) * Den(recommended)
  IN (2 * num + den) \div (2 * den)

generateReportByScore(rs) ==
  LET summary == [c \in {"required", "recommended", "optional"} |-> CategorySummary(rs, c)]
      score == ComplianceScore(summary.required, summary.recommended, summary.optional)
  IN [score |-> score,
      level |-> IF score >= 95 THEN "full"
                ELSE IF score >= 80 THEN "standard"
                ELSE IF score >= 50 THEN "basic"
                ELSE "non-compliant",
      results |-> rs,
      summary |-> summary]

generateReport(rs) ==
  LET summary == [c \in {"required", "recommended", "optional"} |-> CategorySummary(rs, c)]
      score == ComplianceScore(summary.required, summary.recommended, summary.optional)
  IN [score |-> score,
      level |-> IF summary.required.failed > 0 THEN "non-compliant"
                ELSE IF score >= 95 THEN "full"
                ELSE IF score >= 80 THEN "standard"
                ELSE "basic",
      results |-> rs,
      summary |-> summary]

NoReport == [score |-> 0, level |-> "none", results |-> <<>>,
             summary |-> [c \in {"required", "recommended", "optional"} |->
                            [passed |-> 0, failed |-> 0, total |-> 0]]]

\* A validator has been constructed for a server.
ValidatorInit ==
  /\ RunnerParked
  /\ StoreParked
  /\ EvalParked
  /\ PatternParked
  /\ ConnectParked
  /\ MoreParked
  /\ validation \in [pc : {"idle"}, transport : Transports, results : {<<>>},
                     todo : {<<>>}, connected : {FALSE}, returned : {"none"},
                     report : {NoReport}]

ValidatorUnchanged == UNCHANGED <<vars, storeVars, evaluated, matched, connecting, moreVars>>

\* validate() up to validateConnection's await of client.connect(timeout).
Validate ==
  /\ validation.pc = "idle"
  /\ validation' = [validation EXCEPT !.pc = "connect", !.results = <<>>]
  /\ ValidatorUnchanged

\* The validator goes on to the next awaited call with the results `rs`;
\* after the last one validateTransport adds its result and the finally
\* block awaits client.disconnect().
ValidatorProceeds(rs, todo) ==
  IF todo = <<>>
    THEN validation' = [validation EXCEPT
                          !.pc = "disconnect", !.todo = <<>>,
                          !.results = rs \o TransportResults(validation.transport)]
    ELSE validation' = [validation EXCEPT
                          !.pc = Head(todo), !.todo = Tail(todo), !.results = rs]

\* client.connect settles: on a rejection validateConnection rethrows and
\* validate()'s catch adds 'Validation Process'.
ValidatorConnectSettles ==
  /\ validation.pc = "connect"
  /\ \E ok \in BOOLEAN :
       IF ok
         THEN validation' = [validation EXCEPT
                !.pc = "ping", !.connected = TRUE,
                !.results = Append(@, ValidationResult("Server Connection", "required", TRUE))]
         ELSE validation' = [validation EXCEPT
                !.pc = "disconnect",
                !.results = @ \o <<ValidationResult("Server Connection", "required", FALSE),
                                   ValidationResult("Validation Process", "required", FALSE)>>]
  /\ ValidatorUnchanged

\* client.ping settles with true or false, or rejects.
ValidatorPingSettles ==
  /\ validation.pc = "ping"
  /\ \E outcome \in {"true", "false", "rejected"} :
       validation' = [validation EXCEPT
         !.pc = "getCapabilities",
         !.results = Append(@, ValidationResult("Ping Response", "recommended",
                                                outcome = "true"))]
  /\ ValidatorUnchanged

\* client.getCapabilities settles: with the lists, with a 'Method not found'
\* error or with another error.
GetCapabilitiesSettles ==
  /\ validation.pc = "getCapabilities"
  /\ \/ \E caps \in ValidatorCapabilities :
          ValidatorProceeds(validation.results \o CapabilityResults(caps),
                            MethodCalls(caps))
     \/ \E methodNotFound \in BOOLEAN :
          ValidatorProceeds(
            Append(validation.results,
                   ValidationResult("Capability Discovery", "required", methodNotFound)),
            MethodCalls(NoCapabilities))
  /\ ValidatorUnchanged

\* callTool on the first tool, or getPrompt on the first prompt, settles: it
\* resolves, rejects with a validation error or rejects with another error.
InvocationSettles(call, name) ==
  /\ validation.pc = call
  /\ \E outcome \in {"resolved", "validation_error", "other_error"} :
       ValidatorProceeds(
         Append(validation.results,
                ValidationResult(name, "required", outcome # "other_error")),
         validation.todo)
  /\ ValidatorUnchanged

ValidatorCallToolSettles == InvocationSettles("callTool", "Tool Invocation")

ValidatorGetPromptSettles == InvocationSettles("getPrompt", "Prompt Retrieval")

\* readResource on the first resource settles.
ValidatorReadResourceSettles ==
  /\ validation.pc = "readResource"
  /\ \E resolved \in BOOLEAN :
       ValidatorProceeds(
         Append(validation.results,
                ValidationResult("Resource Reading", "required", resolved)),
         validation.todo)
  /\ ValidatorUnchanged

\* A call that the server has to refuse settles: callTool on an unknown tool
\* or readResource on an invalid URI.
RefusalSettles(call, name) ==
  /\ validation.pc = call
  /\ \E resolved \in BOOLEAN :
       ValidatorProceeds(
         Append(validation.results, ValidationResult(name, "required", ~resolved)),
         validation.todo)
  /\ ValidatorUnchanged

UnknownToolSettles == RefusalSettles("unknownTool", "Unknown Tool Error")

InvalidResourceSettles == RefusalSettles("invalidResource", "Invalid Resource Error")

\* client.disconnect() of the finally block settles: validate() returns the
\* report, or rejects with what disconnect threw.
ValidatorDisconnectSettles ==
  /\ validation.pc = "disconnect"
  /\ \E closed \in BOOLEAN :
       IF closed
         THEN validation' = [validation EXCEPT
                !.pc = "done", !.returned = "report",
                !.report = generateReport(validation.results)]
         ELSE validation' = [validation EXCEPT !.pc = "done", !.returned = "thrown"]
  /\ ValidatorUnchanged

ValidatorNext ==
  \/ Validate
  \/ ValidatorConnectSettles
  \/ ValidatorPingSettles
  \/ GetCapabilitiesSettles
  \/ ValidatorCallToolSettles
  \/ ValidatorReadResourceSettles
  \/ ValidatorGetPromptSettles
  \/ UnknownToolSettles
  \/ InvalidResourceSettles
  \/ ValidatorDisconnectSettles

ValidatorSpec == ValidatorInit /\ [][ValidatorNext]_<<vars, storeVars, evaluated, restVars>>

(***************************************************************************)
(* C22: the compliance report of validate() has level 'non-compliant' if   *)
(* and only if at least one check of category 'required' failed; a failed  *)
(* connection always yields 'non-compliant' with a failed 'Server          *)
(* Connection' result.                                                     *)
(***************************************************************************)
Reported == validation # <<>> /\ validation.returned = "report"

RequiredFailed(rs) ==
  \E i \in DOMAIN rs : rs[i].category = "required" /\ ~rs[i].passed

C22_NonCompliantIffRequiredFailed ==
  Reported =>
    /\ validation.report.results = validation.results
    /\ validation.report.level = "non-compliant"
         <=> RequiredFailed(validation.report.results)
    /\ ~validation.connected =>
         /\ validation.report.level = "non-compliant"
         /\ \E i \in DOMAIN validation.report.results :
              validation.report.results[i] =
                ValidationResult("Server Connection", "required", FALSE)

\* validate() returned a report after client.connect rejected.
C22_Witness ==
  /\ Reported
  /\ ~validation.connected
  /\ validation.report.level = "non-compliant"

(***************************************************************************)
(* C23: if listing a capability class fails with any error other than      *)
(* 'Method not found', discovery fails the run: a failing 'Capability      *)
(* Discovery' result is recorded, no existence check and no invocation is  *)
(* performed, and teardown still runs.                                     *)
(***************************************************************************)
\* A listing has settled with an error other than 'Method not found'.
DiscoveryFailed ==
  \E cls \in {"tools", "resources", "prompts"} : env[cls].outcome = "error"

C23_DiscoveryFailureStopsRun ==
  DiscoveryFailed =>
    /\ HasResult("Capability Discovery", "fail")
    /\ ~HasResult("Capability Discovery", "pass")
    /\ HasResult("Test Suite", "fail")
    /\ \A i \in DOMAIN results : ~IsExists(results[i]) /\ ~IsExec(results[i])
    /\ CallsOf(InvocationOps) = {}
    /\ CallsOf({"disconnect"}) = {Len(calls)}
    /\ Done => returned = "suite" /\ suite.results = results

\* A finished run with declared tools whose resources listing failed after
\* the tools had been listed.
C23_Witness ==
  /\ Done
  /\ env.tools.outcome = "ok"
  /\ env.resources.outcome = "error"
  /\ testConfig.tools.entries # <<>>
  /\ env.disconnect = "ok"

(***************************************************************************)
(* C24, as stated: every executed or skipped check contributes exactly one *)
(* TestResult: a run records one result for the connection check, at most  *)
(* one for discovery, one existence result per declared item and one       *)
(* execution-or-skip result per declared item, and no further results,     *)
(* including when the connection or discovery check fails.                 *)
(***************************************************************************)
ResultsOf(check) == SelectSeq(results, LAMBDA r : r.check = check)

C25_ComparisonWithoutDot ==
  (IsEvaluated /\ evaluated.expectation \in {ExpectNotError, ExpectNAbove2, ExpectNAbove3}) =>
    /\ evaluated.verdict = CompareMatched(evaluated.value,
                                          comparisonMatch(evaluated.expectation))
    /\ evaluated.value = ResultFlags =>
         evaluated.verdict = (evaluated.expectation # ExpectNAbove3)

(***************************************************************************)
(* C26, as stated: expectation evaluation is total: for every value and    *)
(* every expression string it returns a boolean and raises no error; a     *)
(* path that traverses a null/undefined intermediate or bracket-indexes a  *)
(* non-array resolves to undefined, which makes a bare-path truthiness     *)
(* check false and makes every numeric (>, >=, <, <=) and strict           *)
(* comparison on that path false.                                          *)
(***************************************************************************)
\* "content[0]"
PathFirstContent == <<"c", "o", "n", "t", "e", "n", "t", "[", "0", "]">>

\* The path content[0].text cannot be traversed on the value: the value is
\* no object, content is no array, or content has no first element.
TraversalFails(value) == getPropertyValue(value, PathFirstContent) = JUndefined

C26_UnresolvedPathAlwaysFails ==
  IsEvaluated =>
    /\ evaluated.verdict \in BOOLEAN
    /\ TraversalFails(evaluated.value) =>
         /\ getPropertyValue(evaluated.value, ExpectTextPath) = JUndefined
         /\ evaluated.expectation \in
              {ExpectTextPath, ExpectTextAtLeast0, ExpectText8, ExpectTextNumber8,
               ExpectTextUndefined} => ~evaluated.verdict

(***************************************************************************)
(* C26, amended: expectation evaluation is total; a path that traverses a  *)
(* null/undefined intermediate or bracket-indexes a non-array resolves to  *)
(* undefined, which makes a bare-path truthiness check false, every        *)
(* numeric comparison false, `path === literal` false unless the literal   *)
(* is undefined, and `path !== literal` true unless the literal is         *)
(* undefined.                                                              *)
(***************************************************************************)
C26_UnresolvedPathIsUndefined ==
  IsEvaluated =>
    /\ evaluated.verdict \in BOOLEAN
    /\ TraversalFails(evaluated.value) =>
         /\ getPropertyValue(evaluated.value, ExpectTextPath) = JUndefined
         /\ evaluated.expectation \in
              {ExpectTextPath, ExpectTextAtLeast0, ExpectText8, ExpectTextNumber8} =>
              ~evaluated.verdict
         /\ evaluated.expectation \in {ExpectTextUndefined, ExpectTextNot8} =>
              evaluated.verdict

\* "content[0].text >= 0" was evaluated against {content: []}.
C26_Witness ==
  /\ IsEvaluated
  /\ evaluated.value = ResultEmptyContent
  /\ evaluated.expectation = ExpectTextAtLeast0
  /\ ~evaluated.verdict

(***************************************************************************)
(* matchesPattern on its own (part_012:477-483).                           *)
(*                                                                         *)
(* The pattern becomes the source of a regular expression: every "*" is    *)
(* replaced by ".*" and every "?" by ".", and every other character is     *)
(* left as it is, so it keeps the meaning it has in a regular expression.  *)
(***************************************************************************)
\* The longest pattern and the longest URI matched.
MaxChars == 3

\* Characters of patterns: a letter, the two wildcards, and two characters
\* that are special in a regular expression.
PatternChars == {"a", "*", "?", ".", "("}
UriChars == {"a", "b", "."}

\* new RegExp(`^${regex}$`) throws a SyntaxError: a group is opened and
\* never closed.
RegExpThrows(pattern) == \E j \in DOMAIN pattern : pattern[j] = "("

\* What a call of matchesPattern does: it returns true or false, or throws.
MatchesPatternCall(value, pattern) ==
  IF RegExpThrows(pattern) THEN "throws"
  ELSE IF matchesPattern(value, pattern) THEN "true"
  ELSE "false"

\* A pattern is matched against a URI.
PatternInit ==
  /\ RunnerParked
  /\ StoreParked
  /\ EvalParked
  /\ ValidatorParked
  /\ ConnectParked
  /\ MoreParked
  /\ matched \in [value : SeqsUpTo(UriChars, MaxChars),
                  pattern : SeqsUpTo(PatternChars, MaxChars),
                  done : {FALSE}, outcome : {"none"}]

\* matchesPattern returns or throws.
MatchPattern ==
  /\ ~matched.done
  /\ matched' = [matched EXCEPT
                   !.done = TRUE,
                   !.outcome = MatchesPatternCall(matched.value, matched.pattern)]
  /\ UNCHANGED <<vars, storeVars, evaluated, validation, connecting, moreVars>>

PatternNext == MatchPattern

PatternSpec == PatternInit /\ [][PatternNext]_<<vars, storeVars, evaluated, restVars>>

(***************************************************************************)
(* C27: a declared resource pattern matches an advertised URI if and only  *)
(* if the whole URI matches the pattern with `*` standing for any          *)
(* (possibly empty) character sequence, `?` for exactly one character and  *)
(* every other character matching only itself, case-sensitively; a pattern *)
(* without `*` or `?` matches only the identical URI, and matching never   *)
(* raises an error.                                                        *)
(***************************************************************************)
RECURSIVE GlobFrom(_, _, _, _)
\* Whether value[i..] matches the glob pattern[j..] to its end.
GlobFrom(value, pattern, i, j) ==
  IF j > Len(pattern) THEN i > Len(value)
  ELSE IF pattern[j] = "*"
    THEN GlobFrom(value, pattern, i, j + 1)
         \/ (i <= Len(value) /\ GlobFrom(value, pattern, i + 1, j))
  ELSE /\ i <= Len(value)
       /\ (pattern[j] = "?" \/ pattern[j] = value[i])
       /\ GlobFrom(value, pattern, i + 1, j + 1)

C27_GlobMatching ==
  (matched # <<>> /\ matched.done) =>
    /\ matched.outcome # "throws"
    /\ (matched.outcome = "true") <=> GlobFrom(matched.value, matched.pattern, 1, 1)
    /\ (\A j \in DOMAIN matched.pattern : matched.pattern[j] \notin {"*", "?"}) =>
         ((matched.outcome = "true") <=> (matched.value = matched.pattern))

(***************************************************************************)
(* C28: within one run at most one client call (connect, ping, a listing   *)
(* call, callTool, readResource, getPrompt, disconnect) is outstanding at  *)
(* any time: each check starts only after the previous check has recorded  *)
(* its result.                                                             *)
(***************************************************************************)
C28_OneCallOutstanding ==
  /\ Cardinality(pending) <= 1
  /\ pc \in {"idle", "done"} <=> pending = {}
  /\ pending # {} => pending = {calls[Len(calls)]} /\ calls[Len(calls)].op = pc
  /\ pc \in ListingOps => Len(results) = 1 /\ results[1].check = "Server Connection"
  /\ pc \in InvocationOps =>
       /\ Len(ExistsResults) = Len(DeclaredItems)
       /\ Len(ExecResults) = cursor - 1
  /\ pc = "disconnect" /\ DiscoverySucceeded =>
       Len(ExecResults) = Len(ExecItems(testConfig))

\* The second of two declared tools is being called: the first has its
\* result and its call is no longer outstanding.
C28_Witness ==
  /\ pc = "callTool"
  /\ cursor = 2
  /\ Len(ExecResults) = 1
  /\ Cardinality(CallsOf({"callTool"})) = 2
  /\ Cardinality(pending) = 1

(***************************************************************************)
(* C29: the liveness probe is non-fatal: after a successful connect, a     *)
(* ping that reports failure leaves the 'Server Connection' result at pass *)
(* (only its message differs) and the run continues with discovery and all *)
(* later phases.                                                           *)
(***************************************************************************)
C29_PingIsNonFatal ==
  env.ping # "none" =>
    /\ env.connect = "ok"
    /\ results[1] = Result("Server Connection", "", NoItem, "connection", "pass",
                           IF env.ping = "ok" THEN "connected_ping" ELSE "connected")
    /\ ~HasResult("Server Connection", "fail")
    /\ CallsOf({"listTools"}) # {}
    /\ DiscoverySucceeded =>
         /\ HasResult("Capability Discovery", "pass")
         /\ ~HasResult("Test Suite", "fail")
         /\ Len(ExistsResults) = Len(DeclaredItems)
         /\ Done => Len(ExecResults) = Len(ExecItems(testConfig))

\* A finished run whose ping failed and whose declared tool was called.
C29_Witness ==
  /\ Done
  /\ env.ping = "error"
  /\ DiscoverySucceeded
  /\ CallsOf({"callTool"}) # {}
  /\ results[1].status = "pass"

(***************************************************************************)
(* connect(timeout) of MCPTestClient (client.ts:13-75) under a run.        *)
(*                                                                         *)
(* connectWithTimeout arms a timer and starts the SDK's handshake; the     *)
(* promise it returns settles with whichever comes first.  Time is counted *)
(* in units; the timer fires when `timeout` units have passed since it was *)
(* armed, unless it was cleared.  The runner is followed through a run     *)
(* that declares nothing.                                                  *)
(***************************************************************************)
\* The longest timeout given to connect, in units of time.
MaxTimeout == 2

\* How the server treats the handshake: it never answers, it completes the
\* handshake, or it breaks it off.
ServerBehaviours == {"never", "resolves", "rejects"}

ConnectInit ==
  /\ RunnerParked
  /\ StoreParked
  /\ EvalParked
  /\ ValidatorParked
  /\ PatternParked
  /\ MoreParked
  /\ connecting \in [timeout : 1..MaxTimeout, server : ServerBehaviours,
                     now : {0}, timer : {"idle"}, handshake : {"idle"},
                     promise : {"idle"}]

\* run() up to the await in connectWithTimeout: the timer is armed and the
\* handshake is started.
RunConnects ==
  /\ pc = "idle"
  /\ connecting.timer = "idle"
  /\ results' = <<>>
  /\ calls' = <<[op |-> "connect", arg |-> NoItem]>>
  /\ pending' = {[op |-> "connect", arg |-> NoItem]}
  /\ pc' = "connect"
  /\ connecting' = [connecting EXCEPT !.timer = "armed", !.handshake = "pending",
                                      !.promise = "pending"]
  /\ UNCHANGED <<testConfig, cursor, capabilities, env, replies, returned, suite>>
  /\ UNCHANGED <<storeVars, evaluated, validation, matched, moreVars>>

\* A unit of time passes since the timer was armed; an armed timer that is
\* due fires before more time passes.
Tick ==
  /\ connecting.timer # "idle"
  /\ connecting.now < MaxTimeout + 1
  /\ ~(connecting.timer = "armed" /\ connecting.now >= connecting.timeout)
  /\ connecting' = [connecting EXCEPT !.now = @ + 1]
  /\ UNCHANGED <<vars, storeVars, evaluated, validation, matched, moreVars>>

\* HandshakeSettles without the clearTimeout of the then and catch handlers.
HandshakeSettlesKeepingTimer ==
  /\ connecting.handshake = "pending"
  /\ connecting.server # "never"
  /\ connecting' = [connecting EXCEPT
       !.handshake = IF connecting.server = "resolves" THEN "resolved" ELSE "rejected",
       !.promise = IF connecting.promise # "pending" THEN @
                   ELSE IF connecting.server = "resolves" THEN "resolved"
                   ELSE "rejected_error"]
  /\ UNCHANGED <<vars, storeVars, evaluated, validation, matched, moreVars>>

\* this.client.connect(this.transport) settles: the handler clears the timer
\* and resolves or rejects the promise, which has no effect on a promise the
\* timer has already rejected.
HandshakeSettles ==
  /\ connecting.handshake = "pending"
  /\ connecting.server # "never"
  /\ connecting' = [connecting EXCEPT
       !.handshake = IF connecting.server = "resolves" THEN "resolved" ELSE "rejected",
       !.timer = IF @ = "armed" THEN "cleared" ELSE @,
       !.promise = IF connecting.promise # "pending" THEN @
                   ELSE IF connecting.server = "resolves" THEN "resolved"
                   ELSE "rejected_error"]
  /\ UNCHANGED <<vars, storeVars, evaluated, validation, matched, moreVars>>

\* The callback of setTimeout runs: it rejects the promise with the timeout
\* error.
TimerFires ==
  /\ connecting.timer = "armed"
  /\ connecting.now >= connecting.timeout
  /\ connecting' = [connecting EXCEPT
       !.timer = "fired",
       !.promise = IF @ = "pending" THEN "rejected_timeout" ELSE @]
  /\ UNCHANGED <<vars, storeVars, evaluated, validation, matched, moreVars>>

\* How client.connect settles for the promise of connectWithTimeout.
ConnectOutcome(promise) ==
  CASE promise = "resolved" -> "ok"
    [] promise = "rejected_error" -> "error"
    [] promise = "rejected_timeout" -> "timeout"

\* The promise of connectWithTimeout has settled: connect() returns or
\* rethrows, and testConnection goes on.
ConnectReturns ==
  /\ connecting.promise \in {"resolved", "rejected_error", "rejected_timeout"}
  /\ ConnectSettlesAs(ConnectOutcome(connecting.promise))

ConnectNext ==
  \/ RunConnects
  \/ Tick
  \/ HandshakeSettles
  \/ TimerFires
  \/ ConnectReturns
  \/ PingSettles
  \/ ListToolsSettles
  \/ ListResourcesSettles
  \/ ListPromptsSettles
  \/ DisconnectSettles

allVars == <<vars, storeVars, evaluated, restVars>>

\* Time passes, a due timer fires, settled promises resume their awaiters,
\* and the client's disconnect settles.
ConnectSpec ==
  /\ ConnectInit
  /\ [][ConnectNext]_allVars
  /\ WF_allVars(RunConnects)
  /\ WF_allVars(Tick)
  /\ WF_allVars(TimerFires)
  /\ WF_allVars(ConnectReturns)
  /\ WF_allVars(DisconnectSettles)

(***************************************************************************)
(* C30: if the server never completes the handshake, connect(timeout)      *)
(* rejects with a timeout error once the timeout has elapsed, and run()    *)
(* then terminates with a failed connection result after attempting        *)
(* teardown; if the handshake settles first, connect settles with the      *)
(* handshake's outcome and the timer never fires afterwards.               *)
(***************************************************************************)
ConnectionFailure ==
  WithError(Result("Server Connection", "", NoItem, "connection", "fail", "connect_failed"))

\* run() has returned after a connect that timed out.
TimedOutRun ==
  /\ Done
  /\ env.connect = "timeout"
  /\ connecting.now >= connecting.timeout
  /\ results = <<ConnectionFailure, SuiteFailure>>
  /\ suite.results = results
  /\ [i \in DOMAIN calls |-> calls[i].op] = <<"connect", "disconnect">>

TimerAndHandshake ==
  /\ connecting.promise = "rejected_timeout" =>
       /\ connecting.timer = "fired"
       /\ connecting.now >= connecting.timeout
  /\ connecting.timer = "fired" => connecting.promise = "rejected_timeout"
  /\ connecting.timer = "armed" =>
       /\ connecting.now <= connecting.timeout
       /\ connecting.handshake = "pending"
  /\ connecting.timer = "cleared" =>
       /\ connecting.handshake \in {"resolved", "rejected"}
       /\ connecting.promise = (IF connecting.handshake = "resolved" THEN "resolved"
                                ELSE "rejected_error")
  /\ env.connect # "none" => env.connect = ConnectOutcome(connecting.promise)

C30_TimeoutOrHandshake ==
  /\ []TimerAndHandshake
  /\ [][connecting.timer = "cleared" => connecting'.timer = "cleared"]_allVars
  /\ (connecting.server = "never") ~> TimedOutRun

\* A run against a server that never answers has ended after the timeout of
\* two units.
C30_Witness ==
  /\ TimedOutRun
  /\ connecting.server = "never"
  /\ connecting.timeout = 2
  /\ connecting.handshake = "pending"

(***************************************************************************)
(* C31: with update mode off, no call of compareSnapshot or captureSnapshot *)
(* creates, overwrites or deletes a stored snapshot: the store's snapshot   *)
(* map and the snapshot file are after the call what they were before it,   *)
(* hence after any sequence of calls what they were after init().           *)
(***************************************************************************)
IsStoreCall == last.op \in {"compare", "capture"}

C31_ReadOnlyStoreWritesNothing ==
  (IsStoreCall /\ ~LastStore.updateSnapshots) =>
    /\ StoredNow = last.before
    /\ disk[last.name] = last.fileBefore

(***************************************************************************)
(* Two stores saving one snapshot file at a time.  saveSnapshot awaits      *)
(* fs.writeFile(filepath, JSON.stringify(snapshot, null, 2), 'utf-8'):      *)
(* writeFile opens the file with the flag 'w' (created or truncated),       *)
(* writes the text from the start of the file through its own descriptor,   *)
(* and closes it; each of the three is awaited on its own, so the steps of  *)
(* two calls on the same path interleave freely.  The text of a file is a   *)
(* sequence of cells: a character, or a field of fixed width (the name, the *)
(* ISO timestamp) as one cell.                                              *)
(***************************************************************************)
Spaces(n) == [i \in 1..n |-> " "]

RECURSIVE JsonText(_, _)
RECURSIVE JsonMembers(_, _, _)

\* The members of a non-empty object or array, one on a line.
JsonMembers(t, entries, indent) ==
  Spaces(indent)
    \o (IF t = "object" THEN <<"\"">> \o entries[1].k \o <<"\"", ":", " ">> ELSE <<>>)
    \o JsonText(entries[1].val, indent)
    \o (IF Len(entries) > 1
          THEN <<",", "\n">> \o JsonMembers(t, Tail(entries), indent)
          ELSE <<>>)

\* JSON.stringify(val, null, 2) at the nesting depth of `indent` spaces, for
\* the numbers 0..9, null, objects and arrays.
JsonText(val, indent) ==
  IF val.t = "number" THEN <<DigitChars[val.v + 1]>>
  ELSE IF ~IsContainer(val) THEN <<"n", "u", "l", "l">>
  ELSE LET entries == JsonValue(val).e
           brackets == IF val.t = "object" THEN <<"{", "}">> ELSE <<"[", "]">>
       IN IF entries = <<>> THEN brackets
          ELSE <<brackets[1], "\n">> \o JsonMembers(val.t, entries, indent + 2)
                 \o <<"\n">> \o Spaces(indent) \o <<brackets[2]>>

\* JSON.stringify(snapshot, null, 2) of a snapshot without metadata.
SnapshotText(name, snapshot) ==
  <<"{", "\n">> \o Spaces(2) \o <<"\"name\": ", name, ",", "\n">>
    \o Spaces(2) \o <<"\"timestamp\": ", DigitChars[snapshot.timestamp + 1], ",", "\n">>
    \o Spaces(2) \o <<"\"data\": ">> \o JsonText(snapshot.data, 2) \o <<"\n", "}">>

\* A write of `text` at the start of a file that holds `file`.
WriteAtStart(file, text) == text \o SubSeq(file, Len(text) + 1, Len(file))

WriterIds == {"left", "right"}

RaceName == "addition-5-3"

\* The data the two stores compare, and the snapshot the directory may hold.
RaceData == {DataA1, DataA2, DataAC}
OlderSnapshot == Snapshot(0, DataA1)

RaceInit ==
  /\ RunnerParked
  /\ StoreParked
  /\ EvalParked
  /\ ValidatorParked
  /\ PatternParked
  /\ ConnectParked
  /\ watching = <<>>
  /\ \E older \in {NoSnapshot, OlderSnapshot}, data \in [WriterIds -> RaceData] :
       /\ data["left"] # data["right"]
       /\ racing = [file |-> IF older.exists THEN SnapshotText(RaceName, older)
                             ELSE <<>>,
                    older |-> older,
                    now |-> 1,
                    landed |-> <<>>,
                    writers |-> [w \in WriterIds |->
                                   [pc |-> "idle", data |-> data[w],
                                    snapshots |-> [n \in SnapshotNames |-> older],
                                    snapshot |-> NoSnapshot,
                                    result |-> Void]]]

RaceUnchanged == UNCHANGED <<vars, storeVars, evaluated, validation, matched, connecting, watching>>

\* compareSnapshot of an update-mode store up to the await of fs.writeFile, or
\* to its return when the data equals the snapshot the store has loaded.
RaceCompare(w) ==
  /\ racing.writers[w].pc = "idle"
  /\ LET self == racing.writers[w]
         out == compareSnapshot(self.snapshots, self.snapshots[RaceName], TRUE,
                                RaceName, self.data, NoConfig, racing.now)
         captures == out.snapshots[RaceName] # self.snapshots[RaceName]
     IN racing' = [racing EXCEPT
                     !.now = @ + 1,
                     !.writers[w] =
                       IF captures
                         THEN [self EXCEPT !.pc = "open",
                                           !.snapshot = out.snapshots[RaceName]]
                         ELSE [self EXCEPT !.pc = "done", !.result = out.result]]
  /\ RaceUnchanged

\* fs.writeFile opens the file: flag 'w' creates it or truncates it.
RaceOpen(w) ==
  /\ racing.writers[w].pc = "open"
  /\ racing' = [racing EXCEPT !.file = <<>>, !.writers[w].pc = "write"]
  /\ RaceUnchanged

\* fs.writeFile writes the text through its descriptor, whose position is 0.
RaceWrite(w) ==
  /\ racing.writers[w].pc = "write"
  /\ racing' = [racing EXCEPT
                  !.file = WriteAtStart(@, SnapshotText(RaceName,
                                                        racing.writers[w].snapshot)),
                  !.landed = Append(@, w),
                  !.writers[w].pc = "close"]
  /\ RaceUnchanged

\* fs.writeFile closes the file and resolves; captureSnapshot sets the
\* snapshot in this.snapshots and compareSnapshot returns { match: true }.
RaceClose(w) ==
  /\ racing.writers[w].pc = "close"
  /\ racing' = [racing EXCEPT
                  !.writers[w].pc = "done",
                  !.writers[w].snapshots[RaceName] = racing.writers[w].snapshot,
                  !.writers[w].result = Compared(TRUE, NoDiff)]
  /\ RaceUnchanged

RaceNext ==
  \E w \in WriterIds : RaceCompare(w) \/ RaceOpen(w) \/ RaceWrite(w) \/ RaceClose(w)

RaceSpec == RaceInit /\ [][RaceNext]_allVars

\* Both calls of compareSnapshot have returned.
BothFinished == \A w \in WriterIds : racing # <<>> /\ racing.writers[w].pc = "done"

\* The record of the writer whose write was the last to complete.
LastLanded == racing.writers[racing.landed[Len(racing.landed)]].snapshot

(***************************************************************************)
(* C32: when two update-mode stores concurrently compare different data    *)
(* under one snapshot name, both report a match and, once both have        *)
(* finished, the file holds exactly the record of the write that completed *)
(* last: one writer's complete record, never a mixture of two records and  *)
(* never the older one.                                                    *)
(***************************************************************************)
C32_LastWriterWins ==
  BothFinished =>
    /\ \A w \in WriterIds : racing.writers[w].result = Compared(TRUE, NoDiff)
    /\ racing.landed # <<>> => racing.file = SnapshotText(RaceName, LastLanded)

(***************************************************************************)
(* WatchMode.  Time is counted in milliseconds; a timer set by setTimeout   *)
(* is due `debounce` ms after it was set and its callback runs then or      *)
(* later, never earlier.  A test run is the call of runner.run() that       *)
(* runTests awaits.  The record of the instance keeps, besides the fields   *)
(* of the class, what happened: the times of the change events, the runs    *)
(* that were started, the calls of runTests that returned at the guard.     *)
(***************************************************************************)
MaxDebounce == 2
MaxTime == 3
MaxChanges == 2
MaxForced == 1

\* No timer: this.debounceTimer is null.
NoTimer == 0

\* setTimeout(callback, debounce) at `now`, for the change event `event`.
Timer(event, now, debounce) == [event |-> event, due |-> now + debounce]

\* runTests without the check of this.state.isRunning.
runTestsUnguarded(w, reason, event) ==
  [w EXCEPT !.isRunning = TRUE,
            !.runCount = @ + 1,
            !.active = @ + 1,
            !.runs = Append(@, [reason |-> reason, event |-> event, at |-> w.now]),
            !.uncovered = {}]

\* runTests up to `await runner.run()`: it returns at once when a run is in
\* progress (and queues nothing), else it marks the state and starts the
\* runner.  A run that starts covers every change made before it.
runTests(w, reason, event) ==
  IF w.isRunning THEN [w EXCEPT !.dropped = @ + 1]
  ELSE [w EXCEPT !.isRunning = TRUE,
                 !.runCount = @ + 1,
                 !.active = @ + 1,
                 !.runs = Append(@, [reason |-> reason, event |-> event, at |-> w.now]),
                 !.uncovered = {}]

\* handleFileChange without the clearTimeout of the timer that is set.
handleFileChangeKeepingTimer(w) ==
  LET event == Len(w.events) + 1
  IN [w EXCEPT !.events = Append(@, w.now),
               !.uncovered = @ \cup {event},
               !.timers = @ \cup {Timer(event, w.now, w.debounce)},
               !.debounceTimer = event]

\* handleFileChange: the timer that is set is cleared (clearing a timer that
\* has fired does nothing) and a new one is set.
handleFileChange(w) ==
  LET event == Len(w.events) + 1
  IN [w EXCEPT !.events = Append(@, w.now),
               !.uncovered = @ \cup {event},
               !.timers = {t \in @ : t.event # w.debounceTimer}
                            \cup {Timer(event, w.now, w.debounce)},
               !.debounceTimer = event]

\* new WatchMode(serverConfig, testConfig, {debounce, runOnStart}).
WatchInit ==
  /\ RunnerParked
  /\ StoreParked
  /\ EvalParked
  /\ ValidatorParked
  /\ PatternParked
  /\ ConnectParked
  /\ racing = <<>>
  /\ watching \in [debounce : 0..MaxDebounce, runOnStart : BOOLEAN, started : {FALSE},
                   now : {0}, isRunning : {FALSE}, runCount : {0}, active : {0},
                   timers : {{}}, debounceTimer : {NoTimer}, events : {<<>>},
                   runs : {<<>>}, uncovered : {{}}, dropped : {0}, forced : {0},
                   settled : {"none"}]

WatchUnchanged == UNCHANGED <<vars, storeVars, evaluated, validation, matched, connecting, racing>>

\* start(): the watchers are set up, then the initial run is started when
\* runOnStart is set.
WatchStart ==
  /\ ~watching.started
  /\ watching' = IF watching.runOnStart
                   THEN runTests([watching EXCEPT !.started = TRUE], "initial", 0)
                   ELSE [watching EXCEPT !.started = TRUE]
  /\ WatchUnchanged

\* Time passes.
WatchTick ==
  /\ watching.now < MaxTime
  /\ watching' = [watching EXCEPT !.now = @ + 1]
  /\ WatchUnchanged

\* A watcher reports a change of a file that shouldProcessFile accepts.
FileChange ==
  /\ watching.started
  /\ Len(watching.events) < MaxChanges
  /\ watching' = handleFileChange(watching)
  /\ WatchUnchanged

\* The callback of a timer that is due: runTests(`File changed: ...`).
DebounceTimerFires ==
  \E t \in watching.timers :
    /\ watching.now >= t.due
    /\ watching' = runTests([watching EXCEPT !.timers = @ \ {t}], "change", t.event)
    /\ WatchUnchanged

\* forceRun(): runTests('Manual trigger').
ForceRun ==
  /\ watching.forced < MaxForced
  /\ watching' = runTests([watching EXCEPT !.forced = @ + 1], "manual", 0)
  /\ WatchUnchanged

\* runTests after the await, for a run that has returned, has thrown, or whose
\* onResults or onError callback throws: the try reports the results, the
\* catch reports the error, the finally clears isRunning whichever way it went.
runTestsSettles(w, outcome) ==
  [w EXCEPT !.isRunning = FALSE,
            !.active = @ - 1,
            !.settled = outcome]

\* runner.run() of the run in progress settles.
RunSettles ==
  \E outcome \in {"returned", "threw", "callbackThrew"} :
    /\ watching.active > 0
    /\ watching' = runTestsSettles(watching, outcome)
    /\ WatchUnchanged

WatchNext ==
  \/ WatchStart
  \/ WatchTick
  \/ FileChange
  \/ DebounceTimerFires
  \/ ForceRun
  \/ RunSettles

WatchSpec == WatchInit /\ [][WatchNext]_allVars

(***************************************************************************)
(* C33: at most one test run is in progress at any time: under every       *)
(* interleaving of timers firing and forceRun() calls no runner is started *)
(* while state.isRunning is true, and state.isRunning is false again after *)
(* every run, whether it returned or threw.                                *)
(***************************************************************************)
C33_OneRunAtATime ==
  /\ watching.active <= 1
  /\ watching.isRunning <=> watching.active = 1
  /\ watching.runCount = Len(watching.runs)

\* A call of runTests returned at the guard, and a run that threw has left
\* isRunning false.
C33_Witness ==
  /\ watching.dropped > 0
  /\ watching.settled = "threw"
  /\ ~watching.isRunning

\* The change events j..k came each less than `debounce` ms after the one before.
SameBurst(j, k) ==
  \A i \in (j + 1)..k : watching.events[i] - watching.events[i - 1] < watching.debounce

\* No change event came less than `debounce` ms after the event k.
LastOfBurst(k) ==
  k < Len(watching.events) =>
    watching.events[k + 1] - watching.events[k] >= watching.debounce

\* The runs that a debounce timer started.
ChangeRuns == {i \in DOMAIN watching.runs : watching.runs[i].reason = "change"}

(***************************************************************************)
(* C34: file changes are debounced: a burst of change events, each less    *)
(* than `debounce` ms after the one before, starts at most one test run,   *)
(* and that run starts only after the last event of the burst.             *)
(***************************************************************************)
C34_OneRunPerBurst ==
  /\ \A i \in ChangeRuns :
       /\ LastOfBurst(watching.runs[i].event)
       /\ watching.runs[i].at >= watching.events[watching.runs[i].event] + watching.debounce
  /\ \A i, j \in ChangeRuns :
       watching.runs[i].event < watching.runs[j].event =>
         ~SameBurst(watching.runs[i].event, watching.runs[j].event)

\* A burst of two events at different times has started its one run, for the
\* second event.
C34_Witness ==
  /\ Len(watching.events) = 2
  /\ SameBurst(1, 2)
  /\ watching.events[2] > watching.events[1]
  /\ \E i \in ChangeRuns : watching.runs[i].event = 2

\* No run is in progress and no timer is set: nothing but a further file
\* change or a call of forceRun() starts a run from here.
WatchIdle == ~watching.isRunning /\ watching.timers = {}

(***************************************************************************)
(* C35: a file change whose debounce timer fires while a test run is in    *)
(* progress is queued: after that run a further run covering the change is *)
(* started without any additional file change.  So once WatchMode is idle, *)
(* nothing in progress and nothing scheduled, every change that was made   *)
(* has been followed by the start of a run.                                *)
(***************************************************************************)
C35_ChangeDuringRunIsRerun == WatchIdle => watching.uncovered = {}

(***************************************************************************)
(* C36: whenever compareSnapshot returns match = false for a name that has *)
(* a stored snapshot, the returned diff is not empty: it has at least one  *)
(* '-' or '+' line, and a line names a path at which the stored and the    *)
(* current data, both projected, differ.                                   *)
(***************************************************************************)
C36_MismatchHasDiff ==
  (IsCompare /\ last.before.exists /\ ~last.result.threw /\ ~last.result.match) =>
    /\ last.result.diff.kind = "lines"
    /\ last.result.diff.lines # <<>>
    /\ NamesDifferingPath(last.result.diff,
                          ProcessIfConfigured(last.before.data, last.config).val,
                          ProcessedData(LastCall).val)

\* Every part of the path names a property of the value it is looked up in.
RECURSIVE PathExists(_, _)
PathExists(current, parts) ==
  \/ parts = <<>>
  \/ /\ IsContainer(current)
     /\ HasKey(current, Head(parts))
     /\ PathExists(Prop(current, Head(parts)), Tail(parts))

\* The configuration without its exclude entries.
WithoutExclude(config) == [config EXCEPT !.exclude = <<>>]

\* The one exclude entry of the configuration of the latest call names no
\* path of `data` as the properties of the configuration project it.
ExcludesMissingPath(data) ==
  /\ last.config.given
  /\ Len(last.config.exclude) = 1
  /\ LET kept == processSnapshotConfig(data, WithoutExclude(last.config))
     IN kept.ok /\ IsContainer(data)
          /\ ~PathExists(kept.val, PathParts(last.config.exclude[1]))

\* The exclude entry leaves the projection of `data` what it is without it.
ExcludeIsNoOp(data) ==
  LET with == processSnapshotConfig(data, last.config)
  IN with.ok /\ with.val = processSnapshotConfig(data, WithoutExclude(last.config)).val

(***************************************************************************)
(* C37: an exclude path that does not exist in the compared data (a key    *)
(* that is missing, or a path that runs through a null or a primitive      *)
(* value) is a no-op: compareSnapshot raises no error and the projected    *)
(* structure is the same as without that exclude entry.                    *)
(***************************************************************************)
C37_MissingExcludeIsNoOp ==
  IsCompare =>
    /\ ExcludesMissingPath(normalizeData(last.data)) =>
         ~last.result.threw /\ ExcludeIsNoOp(normalizeData(last.data))
    /\ (last.before.exists /\ ExcludesMissingPath(last.before.data)) =>
         ~last.result.threw /\ ExcludeIsNoOp(last.before.data)

\* The declared resource patterns with their configurations, as testResources
\* goes through them.
ResourcesToTest == EntriesToTest(testConfig.resources)

\* The calls of readResource whose URI matches the pattern.
ReadsMatching(pattern) ==
  {c \in CallsOf({"readResource"}) : matchesPattern(calls[c].arg, pattern)}

\* The pattern is tested: neither filter nor skip leaves it out.
IsTested(pattern) == ~shouldSkipTest(pattern, testConfig.filter, testConfig.skip)

\* The run has recorded that no advertised resource matches the pattern.
NoMatchRecorded(pattern) ==
  \E i \in DOMAIN results :
    /\ results[i].check = "test"
    /\ results[i].item = pattern
    /\ results[i].status = "fail"

\* readResource is only called with an advertised URI.
ReadsAreAdvertised ==
  \A c \in CallsOf({"readResource"}) :
    \E i \in DOMAIN capabilities.resources : capabilities.resources[i] = calls[c].arg

\* The positions in the discovered catalog of the URIs the pattern matches,
\* and the first of them.
AdvertisedMatches(pattern) ==
  {i \in DOMAIN capabilities.resources :
     matchesPattern(capabilities.resources[i], pattern)}

FirstAdvertised(pattern) ==
  CHOOSE i \in AdvertisedMatches(pattern) : \A j \in AdvertisedMatches(pattern) : i <= j

\* One call of readResource has a URI matching the pattern, and its URI is
\* the first advertised URI that matches.
ReadsFirstMatch(pattern) ==
  \E c \in ReadsMatching(pattern) :
    /\ ReadsMatching(pattern) = {c}
    /\ calls[c].arg = capabilities.resources[FirstAdvertised(pattern)]

CallbackThrew(k) == replies[k].ok /\ replies[k].threw

(***************************************************************************)
(* C39: if a caller-supplied expectation callback throws, the error does   *)
(* not escape run(): that test is recorded as fail, never as pass, and the *)
(* capabilities declared after it are still tested.                        *)
(***************************************************************************)
C39_ThrowingCallbackFails ==
  /\ \A k \in DOMAIN replies :
       CallbackThrew(k) =>
         /\ InvokedResults[k].item = replies[k].arg
         /\ InvokedResults[k].status = "fail"
  /\ (Done /\ DiscoverySucceeded /\ \E k \in DOMAIN replies : CallbackThrew(k)) =>
       /\ returned = "suite"
       /\ ~HasResult("Test Suite", "fail")
       /\ Len(ExecResults) = Len(ExecItems(testConfig))

====
